---------------------------- MODULE Spec2Model ----------------------------
(***************************************************************************)
(* A model of print_voucher_checks_text.py: the Manager.io "Printable      *)
(* Checks" text report is parsed into payment records, each record is laid *)
(* out on an 80x54 character page, and main() previews, prints and renames.*)
(*                                                                         *)
(* Text is modelled as a sequence of characters.  A character is a string: *)
(* an ASCII character is the one-character string itself, a non-ASCII      *)
(* character is named by its code point ("U+00E9").                        *)
(***************************************************************************)
EXTENDS Integers, Sequences, FiniteSets, TLC

(***************************************************************************)
(* Characters and strings                                                  *)
(***************************************************************************)
Chars(s) == [k \in 1..Len(s) |-> SubSeq(s, k, k)]

DigitChars == Chars("0123456789")
LowerAlpha == Chars("abcdefghijklmnopqrstuvwxyz")
UpperAlpha == Chars("ABCDEFGHIJKLMNOPQRSTUVWXYZ")

Range(f) == {f[k] : k \in DOMAIN f}

IsDigit(c) == c \in Range(DigitChars)
\* str.isspace(): what strip() removes and \s matches
IsSpace(c) == c \in {" ", "\t", "\n", "\r", "\f", "U+00A0"}

IndexIn(c, alphabet) == CHOOSE k \in 1..Len(alphabet) : alphabet[k] = c

DigitVal(c) == IndexIn(c, DigitChars) - 1

\* str.lower() / str.upper() on one character
LowerChar(c) == IF c \in Range(UpperAlpha) THEN LowerAlpha[IndexIn(c, UpperAlpha)] ELSE c
UpperChar(c) == IF c \in Range(LowerAlpha) THEN UpperAlpha[IndexIn(c, LowerAlpha)] ELSE c

\* Non-ASCII characters of the model's alphabet: letters with diacritics
\* (e-acute, n-tilde), the typographic punctuation of SMART_MAP, the euro
\* sign (no ASCII decomposition) and the fi ligature (NFKD gives "fi").
NonAsciiLetters == {"U+00E9", "U+00F1"}
NonAscii == NonAsciiLetters \cup
            {"U+2019", "U+2018", "U+201C", "U+201D", "U+2013", "U+2014",
             "U+00A0", "U+20AC", "U+FB01"}

\* \w of a str pattern: letters, digits, underscore (Unicode-aware)
IsWordChar(c) == \/ c \in Range(LowerAlpha) \/ c \in Range(UpperAlpha)
                 \/ IsDigit(c) \/ c = "_"
                 \/ c \in NonAsciiLetters \/ c = "U+FB01"

Drop(s, k) == SubSeq(s, k + 1, Len(s))
Take(s, k) == SubSeq(s, 1, k)

\* the least / greatest element of a non-empty set of integers
MinOf(S) == CHOOSE x \in S : \A y \in S : x <= y
MaxOf(S) == CHOOSE x \in S : \A y \in S : x >= y

\* a position found (not 0), or else the other one
FoundOr(p, other) == IF p # 0 THEN p ELSE other

\* the first position of lo..hi that holds no white space (0 if none)
RECURSIVE FirstNonSpaceIn(_, _, _)
FirstNonSpaceIn(s, lo, hi) ==
  IF lo > hi THEN 0
  ELSE IF lo = hi THEN (IF IsSpace(s[lo]) THEN 0 ELSE lo)
  ELSE FoundOr(FirstNonSpaceIn(s, lo, (lo + hi) \div 2),
               FirstNonSpaceIn(s, ((lo + hi) \div 2) + 1, hi))

\* the last position of lo..hi that holds no white space (0 if none)
RECURSIVE LastNonSpaceIn(_, _, _)
LastNonSpaceIn(s, lo, hi) ==
  IF lo > hi THEN 0
  ELSE IF lo = hi THEN (IF IsSpace(s[lo]) THEN 0 ELSE lo)
  ELSE FoundOr(LastNonSpaceIn(s, ((lo + hi) \div 2) + 1, hi),
               LastNonSpaceIn(s, lo, (lo + hi) \div 2))

\* the first position from k that holds no white space (Len(s) + 1 if none)
FirstNonSpace(s, k) == FoundOr(FirstNonSpaceIn(s, k, Len(s)), Len(s) + 1)

\* the last position up to k that holds no white space (0 if none)
LastNonSpace(s, k) == LastNonSpaceIn(s, 1, k)

lstrip(s) == SubSeq(s, FirstNonSpace(s, 1), Len(s))
rstrip(s) == SubSeq(s, 1, LastNonSpace(s, Len(s)))
strip(s)  == lstrip(rstrip(s))

\* sub occurs in s at 1-based position k
OccursAt(s, sub, k) ==
  /\ k >= 1
  /\ k + Len(sub) - 1 <= Len(s)
  /\ \A j \in 1..Len(sub) : s[k + j - 1] = sub[j]

\* the "in" operator on strings
Contains(s, sub) == \E k \in 1..(Len(s) - Len(sub) + 1) : OccursAt(s, sub, k)

StartsWith(s, sub) == OccursAt(s, sub, 1)
EndsWith(s, sub) == OccursAt(s, sub, Len(s) - Len(sub) + 1)

PositionsOf(s, c) == {k \in 1..Len(s) : s[k] = c}

\* the least / greatest position of a set of positions; 0 when it is empty
FirstOf(P) == IF P = {} THEN 0 ELSE MinOf(P)
LastOf(P) == IF P = {} THEN 0 ELSE MaxOf(P)

\* str.find of a single character from 1-based position k; 0 when absent
FindChar(s, c, k) == FirstOf({j \in PositionsOf(s, c) : j >= k})

\* str.rfind of a single character up to position k; 0 when absent
RFindChar(s, c, k) == LastOf({j \in PositionsOf(s, c) : j <= k})

\* the position of the j-th separator of the positions P; 0 and Len(s) + 1
\* bound the text
Sep(s, P, j) ==
  IF j = 0 THEN 0
  ELSE IF j > Cardinality(P) THEN Len(s) + 1
  ELSE CHOOSE k \in P : Cardinality({m \in P : m <= k}) = j

\* the pieces of s between the separator positions P
SplitAt(s, P) ==
  [j \in 1..(Cardinality(P) + 1) |-> SubSeq(s, Sep(s, P, j - 1) + 1, Sep(s, P, j) - 1)]

\* s.split(c): the pieces between the occurrences of c, empty pieces kept
SplitOn(s, c) == SplitAt(s, PositionsOf(s, c))

\* sep.join(parts[lo..hi])
RECURSIVE JoinRange(_, _, _, _)
JoinRange(parts, sep, lo, hi) ==
  IF lo > hi THEN <<>>
  ELSE IF lo = hi THEN parts[lo]
  ELSE JoinRange(parts, sep, lo, (lo + hi) \div 2) \o sep
         \o JoinRange(parts, sep, ((lo + hi) \div 2) + 1, hi)

\* sep.join(parts)
JoinWith(parts, sep) == JoinRange(parts, sep, 1, Len(parts))

\* c * k
Rep(c, k) == [j \in 1..k |-> c]

\* re.sub(r"\s+", "", s)
RemoveSpaces(s) == SelectSeq(s, LAMBDA c : ~IsSpace(c))

LowerStr(s) == [k \in 1..Len(s) |-> LowerChar(s[k])]

\* k consecutive digits at 1-based position p
DigitsAt(s, p, k) == /\ p >= 1
                     /\ p + k - 1 <= Len(s)
                     /\ \A j \in p..(p + k - 1) : IsDigit(s[j])

CharAt(s, p, c) == p >= 1 /\ p <= Len(s) /\ s[p] = c

\* \d{2}/\d{2}/\d{4} at position p
DatePatternAt(s, p) ==
  /\ DigitsAt(s, p, 2) /\ CharAt(s, p + 2, "/")
  /\ DigitsAt(s, p + 3, 2) /\ CharAt(s, p + 5, "/")
  /\ DigitsAt(s, p + 6, 4)

\* \d{2}/\d{2}/\d{4}\s*$ at position p
BareDateAt(s, p) == DatePatternAt(s, p) /\ FirstNonSpace(s, p + 10) > Len(s)

\* DATE_RE = ^\s*\d{2}/\d{2}/\d{4}\s*$
DATE_RE(s) == BareDateAt(s, FirstNonSpace(s, 1))

\* (\d{2}/\d{2}/\d{4})(.*)$ at position p
DateLedAt(s, p) ==
  IF DatePatternAt(s, p)
  THEN [ok |-> TRUE, date |-> SubSeq(s, p, p + 9), rest |-> Drop(s, p + 9)]
  ELSE [ok |-> FALSE, date |-> <<>>, rest |-> <<>>]

\* date_at_start = ^\s*(\d{2}/\d{2}/\d{4})(.*)$
\* the match, as [ok, date (group 1), rest (group 2)]
date_at_start(s) == DateLedAt(s, FirstNonSpace(s, 1))

\* the length of the maximal run of digits at position p
DigitRun(s, p) ==
  Cardinality({j \in p..Len(s) : \A m \in p..j : IsDigit(s[m])})

\* (?:,\d{3})* taken greedily from position p: the position after the groups
RECURSIVE AfterGroups(_, _)
AfterGroups(s, p) ==
  IF CharAt(s, p, ",") /\ DigitsAt(s, p + 1, 3) THEN AfterGroups(s, p + 4) ELSE p

\* the point and two digits after a run of r digits and its groups, which
\* end before position g
GroupedRun(s, r, g) ==
  IF r >= 1 /\ r <= 3 /\ CharAt(s, g, ".") /\ DigitsAt(s, g + 1, 2)
  THEN g + 3 ELSE 0

\* the point and two digits after the run of r digits at position p
PlainRun(s, p, r) ==
  IF r >= 1 /\ CharAt(s, p + r, ".") /\ DigitsAt(s, p + r + 1, 2)
  THEN p + r + 3 ELSE 0

\* \d{1,3}(?:,\d{3})*\.\d{2} at position p: the position after the match, 0
\* when there is none.  The leading run must be all of a 1..3 digit run and
\* the groups are followed by the point, so backtracking finds no other match.
GroupedAt(s, p) == GroupedRun(s, DigitRun(s, p), AfterGroups(s, p + DigitRun(s, p)))

\* \d+\.\d{2} at position p: the position after the match, 0 when none
PlainAt(s, p) == PlainRun(s, p, DigitRun(s, p))

NotDigitAt(s, p) == ~(p >= 1 /\ p <= Len(s) /\ IsDigit(s[p]))

\* the end g of a match when no digit follows it (?!\d), or else the other
EndOr(s, g, other) == IF g > 0 /\ NotDigitAt(s, g) THEN g ELSE other

\* (?:\d{1,3}(?:,\d{3})*|\d+)\.\d{2}(?!\d) at position p
TightBodyAt(s, p) == EndOr(s, GroupedAt(s, p), EndOr(s, PlainAt(s, p), 0))

\* AMT_TIGHT_RE at position p: (?<!\d)(-?(...)\.\d{2})(?!\d); end position or 0
TightAt(s, p) ==
  IF ~NotDigitAt(s, p - 1) THEN 0
  ELSE IF CharAt(s, p, "-") THEN TightBodyAt(s, p + 1)
  ELSE TightBodyAt(s, p)

\* the match that starts at position p (0: no match)
TightMatch(s, p) ==
  IF p = 0 THEN [ok |-> FALSE, start |-> 0, stop |-> 0]
  ELSE [ok |-> TRUE, start |-> p, stop |-> TightAt(s, p)]

\* AMT_TIGHT_RE.search(s): the leftmost match; group 1 is s[start..stop-1]
\* and m.end() is the text from stop on
AMT_TIGHT_RE(s) == TightMatch(s, FirstOf({p \in 1..Len(s) : TightAt(s, p) > 0}))

\* the match of s[p..g-1] as group 1 and the rest of the line as group 2
AmountLed(s, p, g) ==
  IF g > 0
  THEN [ok |-> TRUE, amt |-> SubSeq(s, p, g - 1), tail |-> Drop(s, g - 1)]
  ELSE [ok |-> FALSE, amt |-> <<>>, tail |-> <<>>]

\* (-?\d{1,3}(?:,\d{3})*(?:\.\d{2}))(.*)$ at position p
AmountLedAt(s, p) ==
  AmountLed(s, p, GroupedAt(s, IF CharAt(s, p, "-") THEN p + 1 ELSE p))

\* amt_at_start = ^\s*(-?\d{1,3}(?:,\d{3})*(?:\.\d{2}))(.*)$
amt_at_start(s) == AmountLedAt(s, FirstNonSpace(s, 1))

\* the end g of a match, followed by \s*$
EndsLine(s, g) == g > 0 /\ FirstNonSpace(s, g) > Len(s)

\* [-+]?\d{1,3}(?:,\d{3})*(?:\.\d{2})\s*$ at position p
BareAmountAt(s, p) ==
  EndsLine(s, GroupedAt(s, IF CharAt(s, p, "-") \/ CharAt(s, p, "+") THEN p + 1 ELSE p))

\* AMOUNT_RE = ^\s*[-+]?\d{1,3}(?:,\d{3})*(?:\.\d{2})\s*$
AMOUNT_RE(s) == BareAmountAt(s, FirstNonSpace(s, 1))

\* \b before position p and after position p + 4 of five digits
ZipAt(s, p) ==
  /\ DigitsAt(s, p, 5)
  /\ ~(p > 1 /\ IsWordChar(s[p - 1]))
  /\ ~(p + 5 <= Len(s) /\ IsWordChar(s[p + 5]))

\* ZIP_RE.search(s) of \b\d{5}(?:-\d{4})?\b: the 1-based start of the
\* leftmost match, 0 when there is none
ZIP_RE(s) == FirstOf({p \in 1..Len(s) : ZipAt(s, p)})

(***************************************************************************)
(* Amounts: decimal.Decimal values with two fraction digits                *)
(***************************************************************************)
\* s.replace(c, "")
RemoveChar(s, c) == SelectSeq(s, LAMBDA x : x # c)

\* the digits without their leading zeros, one digit at least
StripZeros(ds) ==
  Drop(ds, Cardinality({j \in 1..(Len(ds) - 1) : \A m \in 1..j : ds[m] = "0"}))

\* s without its sign
Unsigned(s) == IF Len(s) > 0 /\ s[1] \in {"-", "+"} THEN Tail(s) ELSE s

\* the value of the unsigned text with its point at position dot
DecimalOf(neg, body, dot) ==
  [neg   |-> neg,
   units |-> StripZeros(Take(body, dot - 1)),
   cents |-> 10 * DigitVal(body[dot + 1]) + DigitVal(body[dot + 2])]

\* Decimal(s) for s = [sign] digits "." two digits: the sign, the digits of
\* the integer part (no leading zeros) and the hundredths.  The sign is
\* kept, as Decimal keeps it (also for -0.00).
Decimal(s) == DecimalOf(Len(s) > 0 /\ s[1] = "-", Unsigned(s), FindChar(Unsigned(s), ".", 1))

\* the value of at most nine digits
RECURSIVE DigitsValue(_)
DigitsValue(ds) ==
  IF Len(ds) = 0 THEN 0
  ELSE 10 * DigitsValue(Take(ds, Len(ds) - 1)) + DigitVal(ds[Len(ds)])

RECURSIVE NatChars(_)
NatChars(k) ==
  IF k < 10 THEN <<DigitChars[k + 1]>>
  ELSE NatChars(k \div 10) \o <<DigitChars[(k % 10) + 1]>>

\* f"{c:02d}": width 2, the sign counted in the width
Format02d(c) ==
  IF c < 0 THEN <<"-">> \o NatChars(-c)
  ELSE IF c < 10 THEN <<"0">> \o NatChars(c)
  ELSE NatChars(c)

\* f"{amount:.2f}"
FormatAmount(amount) ==
  (IF amount.neg THEN <<"-">> ELSE <<>>) \o amount.units \o <<".">>
    \o Format02d(amount.cents)

(***************************************************************************)
(* asciiize, sanitize, split_fields_by_pipes                               *)
(***************************************************************************)
\* SMART_MAP on one character
SmartChar(c) ==
  CASE c \in {"U+2019", "U+2018"} -> "'"
    [] c \in {"U+201C", "U+201D"} -> "\""
    [] c \in {"U+2013", "U+2014"} -> "-"
    [] c = "U+00A0" -> " "
    [] OTHER -> c

\* a fold that would leave every character as it is
AsciiFold_Keep(c) == <<c>>

\* what NFKD normalisation followed by encode("ascii", "ignore") leaves of
\* one character: the base letter of a letter with a diacritic, the letters
\* of a ligature, nothing of a character with no ASCII decomposition
AsciiFold(c) ==
  CASE c = "U+00E9" -> <<"e">>
    [] c = "U+00F1" -> <<"n">>
    [] c = "U+FB01" -> <<"f", "i">>
    [] c \in NonAscii -> <<>>
    [] OTHER -> <<c>>

\* the characters lo..hi of s, each replaced and folded
RECURSIVE AsciiRange(_, _, _)
AsciiRange(s, lo, hi) ==
  IF lo > hi THEN <<>>
  ELSE IF lo = hi THEN AsciiFold(SmartChar(s[lo]))
  ELSE AsciiRange(s, lo, (lo + hi) \div 2) \o AsciiRange(s, ((lo + hi) \div 2) + 1, hi)

asciiize(s) == AsciiRange(s, 1, Len(s))

sanitize(s) == [k \in 1..Len(s) |-> SmartChar(s[k])]

\* while parts and not parts[-1]: parts.pop()
PopEmptyTail(parts) ==
  Take(parts, Len(parts)
         - Cardinality({j \in 1..Len(parts) : \A m \in j..Len(parts) : Len(parts[m]) = 0}))

StripAll(parts) == [k \in 1..Len(parts) |-> strip(parts[k])]

split_fields_by_pipes(s) ==
  IF EndsWith(s, <<"|">>) THEN StripAll(SplitOn(s, "|"))
  ELSE PopEmptyTail(StripAll(SplitOn(s, "|")))

(***************************************************************************)
(* normalize_addr                                                          *)
(***************************************************************************)
NonEmpty(parts) == SelectSeq(parts, LAMBDA x : Len(x) > 0)

\* what one stripped line adds to the parts: its pieces when it holds a
\* '|', itself otherwise, nothing when it is blank
LineParts(ln) ==
  IF Len(ln) = 0 THEN <<>>
  ELSE IF Contains(ln, <<"|">>) THEN NonEmpty(StripAll(SplitOn(ln, "|")))
  ELSE <<ln>>

\* the loop of normalize_addr over the lines
RECURSIVE AddrParts(_)
AddrParts(addr_lines) ==
  IF Len(addr_lines) = 0 THEN <<>>
  ELSE LineParts(strip(Head(addr_lines))) \o AddrParts(Tail(addr_lines))

\* the break of s at the last comma (position k) of the text left of the ZIP
CommaSplit(s, left, right, k) ==
  IF k = 0 THEN <<s>>
  ELSE <<strip(Take(left, k - 1)),
         strip(strip(Drop(left, k)) \o <<" ">> \o right)>>

\* the break of s whose ZIP code starts at position z (0: there is none)
ZipSplitAt(s, left, right, z) ==
  IF z = 0 THEN <<s>>
  ELSE CommaSplit(s, left, right, RFindChar(left, ",", Len(left)))

\* the two-line break of a single address line before its ZIP code
ZipSplit(s) ==
  ZipSplitAt(s, rstrip(Take(s, ZIP_RE(s) - 1)), lstrip(Drop(s, ZIP_RE(s) - 1)), ZIP_RE(s))

\* "if len(parts) == 1": the break is tried on a single part
BreakSingle(parts) == IF Len(parts) = 1 THEN ZipSplit(parts[1]) ELSE parts

normalize_addr(addr_lines) == BreakSingle(AddrParts(addr_lines))

(***************************************************************************)
(* parse_payload_with_pipes                                                *)
(***************************************************************************)
\* a peek that would not pass over blank lines
FirstNonBlankLine_NoSkip(lines, j) == j

RECURSIVE FirstNonBlankLine(_, _)
FirstNonBlankLine(lines, j) ==
  IF j <= Len(lines) /\ Len(strip(lines[j])) = 0
  THEN FirstNonBlankLine(lines, j + 1) ELSE j

\* the stripped line s ends the address: blank, a bare date, or an amount in it
EndsAddr(s) == Len(s) = 0 \/ DATE_RE(s) \/ AMT_TIGHT_RE(s).ok

RECURSIVE PipeAddrLines(_)
PipeAddrFrom(s, rest) ==
  IF EndsAddr(s) THEN <<>> ELSE <<s>> \o PipeAddrLines(rest)

\* the address lines taken from the lines after the amount: up to the first
\* blank line, bare date line or line with an amount in it
PipeAddrLines(follow_lines) ==
  IF Len(follow_lines) = 0 THEN <<>>
  ELSE PipeAddrFrom(strip(Head(follow_lines)), Tail(follow_lines))

NoParse == [ok |-> FALSE]

\* tokens[k - 1].strip() if there are k tokens, "" otherwise
Token(tokens, k) == IF Len(tokens) >= k THEN strip(tokens[k]) ELSE <<>>

\* "|".join(tokens[2:]).strip()
Remainder(tokens) ==
  IF Len(tokens) >= 3
  THEN strip(JoinWith(SubSeq(tokens, 3, Len(tokens)), <<"|">>))
  ELSE <<>>

\* addr_lines starts with the address head if there is one
AddrHead(head) == IF Len(head) > 0 THEN <<head>> ELSE <<>>

\* the record for the match m of the amount in remainder, with the follow
\* lines left (rest) and the number of them the call deleted (consumed)
PipeRecord(tokens, remainder, m, rest, consumed) ==
  IF ~m.ok THEN NoParse
  ELSE [ok |-> TRUE, payee |-> Token(tokens, 1), memo |-> Token(tokens, 2),
        amount |-> Decimal(RemoveChar(SubSeq(remainder, m.start, m.stop - 1), ",")),
        addr |-> normalize_addr(AddrHead(strip(Drop(remainder, m.stop - 1)))
                                  \o PipeAddrLines(rest)),
        consumed |-> consumed]

\* the amount is sought in remainder (m0), then in the first non-blank
\* follow line (at position j), which is then deleted with the blank ones
PipeAmount(tokens, remainder, m0, follow_lines, j) ==
  IF m0.ok THEN PipeRecord(tokens, remainder, m0, follow_lines, 0)
  ELSE IF j <= Len(follow_lines)
  THEN PipeRecord(tokens, follow_lines[j], AMT_TIGHT_RE(follow_lines[j]),
                  Drop(follow_lines, j), j)
  ELSE NoParse

PipeTokens(tokens, follow_lines) ==
  PipeAmount(tokens, Remainder(tokens), AMT_TIGHT_RE(Remainder(tokens)),
             follow_lines, FirstNonBlankLine(follow_lines, 1))

\* the record, with the number of follow_lines the call deleted (consumed)
parse_payload_with_pipes(first_payload, follow_lines) ==
  PipeTokens(split_fields_by_pipes(first_payload), follow_lines)

(***************************************************************************)
(* money_words                                                             *)
(***************************************************************************)
small == <<"zero", "one", "two", "three", "four", "five", "six", "seven",
           "eight", "nine", "ten", "eleven", "twelve", "thirteen", "fourteen",
           "fifteen", "sixteen", "seventeen", "eighteen", "nineteen">>
tens  == <<"", "ten", "twenty", "thirty", "forty", "fifty", "sixty",
           "seventy", "eighty", "ninety">>

IndexError == [ok |-> FALSE, words |-> <<>>]

\* the words of x1 < 100, after the words p1 of the hundreds
Below100(x1, p1) ==
  p1 \o (IF x1 >= 20
         THEN <<tens[(x1 \div 10) + 1]>>
                \o (IF x1 % 10 # 0 THEN <<small[(x1 % 10) + 1]>> ELSE <<>>)
         ELSE IF x1 > 0 THEN <<small[x1 + 1]>>
         ELSE IF Len(p1) = 0 THEN <<"zero">>
         ELSE <<>>)

\* up_to_999(x) for x >= 0: the words, or IndexError when small[x//100] is
\* out of range (x >= 2000)
up_to_999(x) ==
  IF x >= 100 /\ x \div 100 >= Len(small) THEN IndexError
  ELSE [ok |-> TRUE,
        words |-> <<JoinWith(Below100(IF x >= 100 THEN x % 100 ELSE x,
                                      IF x >= 100 THEN <<small[(x \div 100) + 1], "hundred">>
                                      ELSE <<>>), " ")>>]

Billion == 1000000000

\* the words of x units of a scale, nothing when x is 0
Scaled(x, unit) == IF x >= 1 THEN up_to_999(x).words \o <<unit>> ELSE <<>>

\* " ".join(out) if out else "zero"
ChunkWords(out) == IF Len(out) > 0 THEN JoinWith(out, " ") ELSE "zero"

\* chunk(x) for x = hi * 10^9 + lo with 0 <= lo < 10^9 (x itself may exceed
\* the integers of the model checker)
chunk(hi, lo) ==
  IF hi >= 1 /\ ~up_to_999(hi).ok THEN IndexError
  ELSE [ok |-> TRUE,
        words |-> ChunkWords(Scaled(hi, "billion")
                               \o Scaled(lo \div 1000000, "million")
                               \o Scaled((lo % 1000000) \div 1000, "thousand")
                               \o (IF lo % 1000 > 0 THEN up_to_999(lo % 1000).words
                                   ELSE <<>>))]

\* x // 10^9 of the digits of a non-negative integer.  More than nine
\* leading digits stand for a value of at least 10^9, for which up_to_999
\* fails as it does for the value of the first nine, so those are taken.
HighPart(units) ==
  IF Len(units) <= 9 THEN 0
  ELSE DigitsValue(Take(units, IF Len(units) - 9 > 9 THEN 9 ELSE Len(units) - 9))

\* x % 10^9
LowPart(units) ==
  IF Len(units) <= 9 THEN DigitsValue(units)
  ELSE DigitsValue(SubSeq(units, Len(units) - 8, Len(units)))

\* str.capitalize()
capitalize(s) ==
  [k \in 1..Len(s) |-> IF k = 1 THEN UpperChar(s[k]) ELSE LowerChar(s[k])]

\* a phrase that would always say "dollars"
MoneyText_AlwaysPlural(c, one, cents) ==
  IF ~c.ok THEN [ok |-> FALSE, text |-> <<>>]
  ELSE [ok |-> TRUE,
        text |-> capitalize(Chars(c.words) \o Chars(" dollars")
                              \o Chars(" and ") \o Format02d(cents) \o Chars("/100"))]

\* the words c of the dollars, "dollar" or "dollars", and the cents
MoneyText(c, one, cents) ==
  IF ~c.ok THEN [ok |-> FALSE, text |-> <<>>]
  ELSE [ok |-> TRUE,
        text |-> capitalize(Chars(c.words)
                              \o Chars(IF one THEN " dollar" ELSE " dollars")
                              \o Chars(" and ") \o Format02d(cents) \o Chars("/100"))]

\* money_words(val): [ok, text]; ok is FALSE when the call raises IndexError.
\* n = int(val) truncates towards zero and keeps the sign; so do the cents.
money_words(val) ==
  MoneyText(IF ~val.neg /\ val.units # <<"0">>
            THEN chunk(HighPart(val.units), LowPart(val.units))
            ELSE [ok |-> TRUE, words |-> "zero"],
            ~val.neg /\ val.units = <<"1">>,
            IF val.neg THEN -val.cents ELSE val.cents)

(***************************************************************************)
(* parse_text_report                                                       *)
(***************************************************************************)
HeaderToken == Chars("datecontactdescriptioncredit")
FooterPeriod == Chars("Printable Checks - For the period")
FooterView == Chars("custom-report-view")

IsHeader(ln) == StartsWith(RemoveSpaces(LowerStr(ln)), HeaderToken)
IsFooter(s) == Contains(s, FooterPeriod) \/ Contains(s, FooterView)

\* the 0-based index of the header row, -1 when there is none (hdr is None)
RECURSIVE FindHeaderFrom(_, _)
FindHeaderFrom(lines, k) ==
  IF k >= Len(lines) THEN -1
  ELSE IF IsHeader(lines[k + 1]) THEN k ELSE FindHeaderFrom(lines, k + 1)

find_header(lines) == FindHeaderFrom(lines, 0)

\* the inner loop that looks for the next line starting with a date, from
\* the 0-based cursor i: where it stops and why
RECURSIVE ScanDate(_, _)
ScanDate(lines, i) ==
  IF i >= Len(lines) THEN [i |-> i, how |-> "end"]
  ELSE IF date_at_start(lines[i + 1]).ok THEN [i |-> i, how |-> "date"]
  ELSE IF IsFooter(lines[i + 1]) THEN [i |-> i, how |-> "footer"]
  ELSE ScanDate(lines, i + 1)

RECURSIVE LegacyPre(_, _, _)
\* one line s (right-stripped) of the loop before the amount line
LegacyPreLine(lines, i, pre, s) ==
  IF Len(s) = 0 THEN LegacyPre(lines, i + 1, pre)
  ELSE IF amt_at_start(s).ok \/ IsFooter(s) THEN [i |-> i, pre |-> pre]
  ELSE LegacyPre(lines, i + 1, Append(pre, strip(s)))

\* the legacy loop that gathers the lines before the amount line
LegacyPre(lines, i, pre) ==
  IF i >= Len(lines) THEN [i |-> i, pre |-> pre]
  ELSE LegacyPreLine(lines, i, pre, rstrip(lines[i + 1]))

RECURSIVE LegacyAddr(_, _, _)
\* one line s (stripped) of the loop after the amount line
LegacyAddrLine(lines, i, acc, s) ==
  IF Len(s) = 0 THEN [i |-> i + 1, addr_lines |-> acc]
  ELSE IF date_at_start(s).ok \/ amt_at_start(s).ok \/ IsFooter(s)
  THEN [i |-> i, addr_lines |-> acc]
  ELSE LegacyAddr(lines, i + 1, Append(acc, s))

\* the legacy loop that gathers the address lines after the amount line
LegacyAddr(lines, i, acc) ==
  IF i >= Len(lines) THEN [i |-> i, addr_lines |-> acc]
  ELSE LegacyAddrLine(lines, i, acc, strip(lines[i + 1]))

\* a split that would take two lines for the payee from three lines on
LegacyPayee_TwoFromThree(pre) ==
  IF Len(pre) >= 3 THEN JoinWith(Take(pre, 2), <<" ">>)
  ELSE IF Len(pre) >= 1 THEN pre[1]
  ELSE <<>>

\* the heuristic split of payee and memo by the number of lines before the amount
LegacyPayee(pre) ==
  IF Len(pre) >= 4 THEN JoinWith(Take(pre, 2), <<" ">>)
  ELSE IF Len(pre) >= 1 THEN pre[1]
  ELSE <<>>

LegacyMemo(pre) ==
  IF Len(pre) >= 4 THEN JoinWith(Drop(pre, 2), <<" ">>)
  ELSE IF Len(pre) = 3 THEN JoinWith(Drop(pre, 1), <<" ">>)
  ELSE IF Len(pre) = 2 THEN pre[2]
  ELSE <<>>

NoRecord == [date |-> <<>>, payee |-> <<>>, memo |-> <<>>, addr |-> <<>>,
             amount |-> [neg |-> FALSE, units |-> <<"0">>, cents |-> 0]]

\* the record of the lines pre, the amount match mamt and the address loop a
LegacyEmit(date, pre, mamt, a) ==
  [i |-> a.i, how |-> "legacy",
   rec |-> [date |-> date, payee |-> LegacyPayee(pre), memo |-> LegacyMemo(pre),
            addr |-> normalize_addr(a.addr_lines),
            amount |-> Decimal(RemoveChar(mamt.amt, ","))]]

\* after the first loop stopped at cursor i with the lines pre: the amount
\* line is matched (mamt) and the address lines follow it
LegacyAmount(lines, i, date, pre, mamt) ==
  IF ~mamt.ok THEN [i |-> i, how |-> "break", rec |-> NoRecord]
  ELSE LegacyEmit(date, pre, mamt,
                  LegacyAddr(lines, i + 1, AddrHead(strip(mamt.tail))))

\* after the first loop (g): "if i >= n: break"
LegacyAfterPre(lines, date, g) ==
  IF g.i >= Len(lines) THEN [i |-> g.i, how |-> "break", rec |-> NoRecord]
  ELSE LegacyAmount(lines, g.i, date, g.pre, amt_at_start(strip(lines[g.i + 1])))

\* the legacy multi-line fallback for the record whose date line was just
\* read; i is the cursor after the date line
legacy_record(lines, i, date, first_payload) ==
  LegacyAfterPre(lines, date, LegacyPre(lines, i, AddrHead(first_payload)))

\* a fast path that would leave the cursor on the date line
DatedParsed_StaysPut(lines, i, date, first_payload, parsed) ==
  IF parsed.ok
  THEN [i |-> i, how |-> "pipe",
        rec |-> [date |-> date, payee |-> parsed.payee, memo |-> parsed.memo,
                 addr |-> parsed.addr, amount |-> parsed.amount]]
  ELSE legacy_record(lines, i + 1, date, first_payload)

\* a fallback that would start one line too late, as if the failed fast
\* path had taken the line after the date line
DatedParsed_SkipsLine(lines, i, date, first_payload, parsed) ==
  IF parsed.ok
  THEN [i |-> i + 1 + parsed.consumed, how |-> "pipe",
        rec |-> [date |-> date, payee |-> parsed.payee, memo |-> parsed.memo,
                 addr |-> parsed.addr, amount |-> parsed.amount]]
  ELSE legacy_record(lines, i + 2, date, first_payload)

\* the fast path returned parsed, or None
DatedParsed(lines, i, date, first_payload, parsed) ==
  IF parsed.ok
  THEN [i |-> i + 1 + parsed.consumed, how |-> "pipe",
        rec |-> [date |-> date, payee |-> parsed.payee, memo |-> parsed.memo,
                 addr |-> parsed.addr, amount |-> parsed.amount]]
  ELSE legacy_record(lines, i + 1, date, first_payload)

\* the pipe-aware fast path when the payload holds a '|'
DatedPayload(lines, i, date, first_payload) ==
  DatedParsed(lines, i, date, first_payload,
              IF Contains(first_payload, <<"|">>)
              THEN parse_payload_with_pipes(first_payload, Drop(lines, i + 1))
              ELSE NoParse)

\* the record of the date-led line at cursor i: the pipe-aware fast path
\* when the payload holds a '|' and the helper finds an amount, the legacy
\* fallback otherwise
dated_record(lines, i) ==
  DatedPayload(lines, i, strip(date_at_start(lines[i + 1]).date),
               strip(date_at_start(lines[i + 1]).rest))

\* what follows the scan sc for a date-led line
AfterScan(lines, sc) ==
  IF sc.how = "date" THEN dated_record(lines, sc.i)
  ELSE [i |-> sc.i, how |-> sc.how, rec |-> NoRecord]

\* one iteration of the outer "while i < n" loop from cursor i: the new
\* cursor, how the iteration ended ("pipe"/"legacy": a record was appended;
\* "footer": return out; "end"/"break": the loop was left) and the record
record_step(lines, i) == AfterScan(lines, ScanDate(lines, i))

Emits(how) == how \in {"pipe", "legacy"}

RECURSIVE ReportFrom(_, _, _)
ReportNext(lines, out, st) ==
  IF Emits(st.how) THEN ReportFrom(lines, st.i, Append(out, st.rec)) ELSE out

\* the outer loop from cursor i, with the records out appended so far
ReportFrom(lines, i, out) ==
  IF i >= Len(lines) THEN out ELSE ReportNext(lines, out, record_step(lines, i))

\* "if hdr is None: return []"
ReportAfter(lines, hdr) == IF hdr = -1 THEN <<>> ELSE ReportFrom(lines, hdr + 1, <<>>)

parse_text_report(lines) == ReportAfter(lines, find_header(lines))

(***************************************************************************)
(* parse_blocks                                                            *)
(***************************************************************************)
MAX_PAYEE_LINES == 2

\* the non-blank lines (right-stripped) from cursor i up to the next bare
\* date line, with the cursor after them
RECURSIVE BlockChunk(_, _, _)
BlockChunk(lines, i, acc) ==
  IF i >= Len(lines) \/ DATE_RE(lines[i + 1]) THEN [i |-> i, blk |-> acc]
  ELSE BlockChunk(lines, i + 1,
                  IF Len(strip(lines[i + 1])) > 0
                  THEN Append(acc, rstrip(lines[i + 1])) ELSE acc)

\* a scan that would take the first line that is exactly an amount
LastAmount_First(blk, idx) ==
  IF \E j \in 1..idx : AMOUNT_RE(blk[j])
  THEN MinOf({j \in 1..idx : AMOUNT_RE(blk[j])}) ELSE 0

\* the last line of the block that is exactly an amount (1-based), 0 if none
RECURSIVE LastAmount(_, _)
LastAmount(blk, idx) ==
  IF idx < 1 THEN 0
  ELSE IF AMOUNT_RE(blk[idx]) THEN idx ELSE LastAmount(blk, idx - 1)

WithPipe(ls) == SelectSeq(ls, LAMBDA x : Contains(x, <<"|">>))

JoinStripped(ls) == JoinWith(NonEmpty(StripAll(ls)), <<" ">>)

\* the record of a block: body holds the lines before the amount line
BlockFields(date, blk, amt_idx, body, payee_lines) ==
  [date |-> date, payee |-> JoinStripped(Take(body, payee_lines)),
   memo |-> JoinStripped(Drop(body, payee_lines)),
   amount |-> Decimal(strip(RemoveChar(blk[amt_idx], ","))),
   addr |-> normalize_addr(WithPipe(Drop(blk, amt_idx)))]

block_record(date, blk, amt_idx) ==
  BlockFields(date, blk, amt_idx, Take(blk, amt_idx - 1),
              IF amt_idx - 1 < MAX_PAYEE_LINES THEN amt_idx - 1 ELSE MAX_PAYEE_LINES)

RECURSIVE BlocksFrom(_, _, _)
\* the block c that follows the bare date line at cursor i
BlockAt(lines, i, blocks, c, amt_idx) ==
  IF amt_idx = 0 THEN BlocksFrom(lines, c.i, blocks)
  ELSE BlocksFrom(lines, c.i,
                  Append(blocks, block_record(strip(lines[i + 1]), c.blk, amt_idx)))

BlockAfter(lines, i, blocks, c) ==
  BlockAt(lines, i, blocks, c, LastAmount(c.blk, Len(c.blk)))

BlocksFrom(lines, i, blocks) ==
  IF i >= Len(lines) THEN blocks
  ELSE IF ~DATE_RE(lines[i + 1]) THEN BlocksFrom(lines, i + 1, blocks)
  ELSE BlockAfter(lines, i, blocks, BlockChunk(lines, i + 1, <<>>))

parse_blocks(lines) == BlocksFrom(lines, 0, <<>>)

(***************************************************************************)
(* Layout and page helpers                                                 *)
(***************************************************************************)
CPL == 80
LINES_PER_PAGE == 54
CPI == 10
LPI == 6

Max(a, b) == IF a >= b THEN a ELSE b
Min(a, b) == IF a <= b THEN a ELSE b

\* 1-based to 0-based
R(n) == Max(0, n - 1)
C(n) == Max(0, n - 1)

\* margins and the check height, in hundredths of an inch
MARGIN_LEFT_IN == 50
MARGIN_TOP_IN == 50
CHECK_H_IN == 350

\* int(round(h / 100)) for h >= 0 hundredths: round() takes a value half-way
\* between two integers to the even one
RoundHalfEven(h) ==
  IF h % 100 = 50
  THEN (IF (h \div 100) % 2 = 0 THEN h \div 100 ELSE (h \div 100) + 1)
  ELSE (h + 50) \div 100

\* int(round((margin + x) * per_inch)) for x in hundredths of an inch
col_in(x_in) == RoundHalfEven((MARGIN_LEFT_IN + x_in) * CPI)
row_in(y_in) == RoundHalfEven((MARGIN_TOP_IN + y_in) * LPI)

ROW_DATE == R(6)
COL_DATE == C(50)
ROW_PAYEE == R(6)
COL_PAYEE == C(9)
ROW_AMT_NUM == R(7)
AMT_RIGHT_COL == 73
ROW_WORDS == R(9)
COL_WORDS == C(7)
ROW_ADDR_START == R(12)
COL_ADDR == C(6)
ROW_MEMO == R(17)
COL_MEMO == C(7)
ROW_STUB1 == row_in(CHECK_H_IN)
ROW_STUB2 == row_in(CHECK_H_IN * 2)
COL_STUB_LABEL == col_in(20)
COL_STUB_VAL == col_in(120)

\* the line with the first w characters of text written from the 0-based
\* column col, the line growing as far as the last character written
Overlay(line, col, text, w) ==
  [k \in 1..Max(Len(line), col + w) |->
     IF k > col /\ k <= col + w THEN text[k - col]
     ELSE IF k <= Len(line) THEN line[k] ELSE " "]

\* a loop that would stop one column later
PutLoop_PastCPL(line, col, text) ==
  Overlay(line, col, text, IF col > CPL THEN 0 ELSE Min(Len(text), CPL - col + 1))

\* the loop of put: text[k] goes to the 0-based column col + k while that
\* is below CPL
PutLoop(line, col, text) ==
  Overlay(line, col, text, IF col >= CPL THEN 0 ELSE Min(Len(text), CPL - col))

\* "if len(line) < col: line += ' ' * (col - len(line))"
PadTo(line, col) ==
  IF Len(line) < col THEN line \o Rep(" ", col - Len(line)) ELSE line

\* put(linebuf, row, col, text) with 0-based row and col: the new linebuf
put(linebuf, row, col, text) ==
  IF row < 0 \/ row >= Len(linebuf) THEN linebuf
  ELSE [linebuf EXCEPT ![row + 1] = PutLoop(PadTo(@, col), col, asciiize(text))]

\* a right alignment that would start one column to the left
put_right_OneLeft(linebuf, row, right_col_1based, text) ==
  put(linebuf, row, Max(0, C(right_col_1based) - Len(text)), text)

put_right(linebuf, row, right_col_1based, text) ==
  put(linebuf, row, Max(0, C(right_col_1based) - Len(text) + 1), text)

blank_page == [r \in 1..LINES_PER_PAGE |-> <<>>]

IsBlank(ln) == \A k \in 1..Len(ln) : IsSpace(ln[k])

\* while page and not page[-1].strip(): page.pop()
trim_trailing_blank_lines(page) ==
  Take(page, Len(page)
         - Cardinality({j \in 1..Len(page) : \A m \in j..Len(page) : IsBlank(page[m])}))

\* a line cut at the page width but never padded
FixWidth_NoPad(ln) == Take(ln, Min(CPL, Len(ln)))

\* ln[:CPL].ljust(CPL)
FixWidth(ln) == [k \in 1..CPL |-> IF k <= Len(ln) THEN ln[k] ELSE " "]

(***************************************************************************)
(* render_check_page                                                       *)
(***************************************************************************)
\* the address loop: at most four lines, one row each from ROW_ADDR_START
RECURSIVE PutAddr(_, _, _)
PutAddr(page, addr, r) ==
  IF Len(addr) = 0 THEN page
  ELSE PutAddr(put(page, r, COL_ADDR, Head(addr)), Tail(addr), r + 1)

\* one line of a stub: the label and the value
PutStubLine(page, row, label, value) ==
  put(put(page, row, COL_STUB_LABEL, Chars(label)), row, COL_STUB_VAL, value)

\* one stub: Payee / Date / Amount / Memo as label and value
PutStub(page, row, payee, date, amount_text, memo) ==
  PutStubLine(
    PutStubLine(
      PutStubLine(
        PutStubLine(page, row, "Payee:", payee),
        row + 1, "Date:", date),
      row + 2, "Amount:", <<"$">> \o amount_text),
    row + 3, "Memo:", memo)

\* an address loop that would place five lines
AddrShown_Five(addr) == Take(addr, Min(5, Len(addr)))

\* the address lines the renderer places
AddrShown(addr) == Take(addr, Min(4, Len(addr)))

\* the face of the check: date, amount, payee, words, address and memo, in
\* the order the code places them
PutFace(page, date, payee, memo, addr, amt, words) ==
  put(PutAddr(put(put(put_right(put(page, ROW_DATE, COL_DATE, date),
                                ROW_AMT_NUM, AMT_RIGHT_COL, amt),
                      ROW_PAYEE, COL_PAYEE, payee),
                  ROW_WORDS, COL_WORDS, words),
              AddrShown(addr), ROW_ADDR_START),
      ROW_MEMO, COL_MEMO, memo)

\* [ln[:CPL].ljust(CPL) for ln in page]
FixPage(page) == [r \in 1..Len(page) |-> FixWidth(page[r])]

\* the page of the fields, sanitized and formatted
RenderFields(date, payee, memo, addr, amt, words) ==
  IF ~words.ok THEN [ok |-> FALSE, page |-> <<>>]
  ELSE [ok |-> TRUE,
        page |-> FixPage(PutStub(PutStub(PutFace(blank_page, date, payee, memo, addr,
                                                 amt, words.text),
                                         ROW_STUB1, payee, date, amt, memo),
                                 ROW_STUB2, payee, date, amt, memo))]

\* render_check_page(rec): [ok, page]; ok is FALSE when money_words raises
render_check_page(rec) ==
  RenderFields(rec.date, sanitize(rec.payee), sanitize(rec.memo),
               [k \in 1..Len(rec.addr) |-> sanitize(rec.addr[k])],
               FormatAmount(rec.amount), money_words(rec.amount))

(***************************************************************************)
(* The device-bound text of main                                           *)
(***************************************************************************)
CRLF == <<"\r", "\n">>
FF == <<"\f">>

\* CRLF.join(p).rstrip()
page_str(page) == rstrip(JoinWith(page, CRLF))

\* FF.join(page_strs) + FF
blob_of(pages) == JoinWith([k \in 1..Len(pages) |-> page_str(pages[k])], FF) \o FF

(***************************************************************************)
(* The input file: what the report holds.  A check is what the user meant  *)
(* to pay (date, payee, memo, amount text, address pieces); a chunk is the *)
(* way the "Generic/Text" printer laid one check, or other text, into      *)
(* lines.                                                                  *)
(***************************************************************************)
MaxChunks == 2
\* the chunks of a file in the runs of main
MaxMainChunks == 1

HeaderLine == Chars("Date Contact Description Credit Address")
FooterLine == Chars("Printable Checks - For the period 01/01/2025 - 12/31/2025")

Check(date, payee, memo, amount, addr) ==
  [date |-> Chars(date), payee |-> payee, memo |-> Chars(memo),
   amount |-> Chars(amount), addr |-> addr]

\* the example of the documentation
CenturyLink == Check("08/07/2025", Chars("Century Link"), "505-291-1047", "41.79",
                     <<Chars("P.O. Box 2961"), Chars("Phoenix, AZ"), Chars("85062-2961")>>)
\* a one-piece address that holds a comma and a ZIP code
Acme        == Check("08/08/2025", Chars("Acme Supply"), "inv 7", "1,250.00",
                     <<Chars("Box 1, Reno, NV 89501")>>)
\* a negative amount
Refund      == Check("08/09/2025", Chars("Jo Doe"), "refund", "-41.79",
                     <<Chars("PO Box 7"), Chars("Reno, NV")>>)
\* a payee that reaches the date column, and five address pieces
LongName    == Check("08/10/2025", Chars("The Very Long Named ") \o Rep("X", 25), "dues", "5.00",
                     <<Chars("Attn A"), Chars("Dept B"), Chars("Floor C"),
                       Chars("9 Oak Rd"), Chars("Taos, NM")>>)
\* an amount of two trillion
Trillions   == Check("08/11/2025", Chars("Big Corp"), "bond", "2000000000000.00",
                     <<Chars("PO Box 9")>>)
\* an address that starts with a digit, right after the amount
Rent        == Check("08/12/2025", Chars("Jo Roe"), "rent", "950.00",
                     <<Chars("12 Elm St"), Chars("Reno, NV")>>)
NoCheck     == Check("", <<>>, "", "", <<>>)

PipeChecks == {CenturyLink, Acme, Refund, LongName, Trillions, Rent}

Chunk(kind, check) == [kind |-> kind, check |-> check]

ChunkPool ==
  {Chunk("pipe", c) : c \in PipeChecks}
    \cup {Chunk("legacy", CenturyLink), Chunk("block", Refund),
          Chunk("text", NoCheck), Chunk("blank", NoCheck), Chunk("footer", NoCheck)}

\* "P.O. Box 2961| Phoenix, AZ| 85062-2961|": each piece ends with the bar
AddrWithPipes(addr) ==
  JoinWith([k \in 1..Len(addr) |-> addr[k] \o <<"|">>], <<" ">>)

\* the lines of a chunk
ChunkLines(c) ==
  CASE c.kind = "pipe" ->
         <<c.check.date \o c.check.payee \o <<"|">> \o c.check.memo \o <<"|">>
             \o c.check.amount \o AddrWithPipes(c.check.addr)>>
    [] c.kind = "legacy" ->
         <<c.check.date \o c.check.payee, c.check.memo,
           c.check.amount \o <<" ">> \o JoinWith(c.check.addr, Chars(", "))>>
    [] c.kind = "block" ->
         <<c.check.date, c.check.payee, c.check.memo, c.check.amount,
           AddrWithPipes(c.check.addr)>>
    [] c.kind = "text" -> <<Chars("Suite 5")>>
    [] c.kind = "blank" -> <<<<>>>>
    [] c.kind = "footer" -> <<FooterLine>>
    [] c.kind = "lines" -> c.lines

RECURSIVE LinesOf(_)
LinesOf(chunks) ==
  IF Len(chunks) = 0 THEN <<>> ELSE ChunkLines(Head(chunks)) \o LinesOf(Tail(chunks))

ChunkSeqs(maxc) == UNION {[1..n -> ChunkPool] : n \in 0..maxc}

\* a file that is there and readable, with or without the header row
Contents(maxc) ==
  {[exists |-> TRUE, readable |-> TRUE, header |-> h, chunks |-> cs] :
     h \in BOOLEAN, cs \in ChunkSeqs(maxc)}

NoContent(exists) ==
  [exists |-> exists, readable |-> FALSE, header |-> FALSE, chunks |-> <<>>]

\* the characters the pattern [\x00-\x08\x0b\x0c\x0e-\x1f] of read_text
\* removes, and the byte-order mark
ControlChars ==
  {"U+0000", "U+0001", "U+0002", "U+0003", "U+0004", "U+0005", "U+0006",
   "U+0007", "U+0008", "U+000B", "\f", "U+000E", "U+000F", "U+0010",
   "U+0011", "U+0012", "U+0013", "U+0014", "U+0015", "U+0016", "U+0017",
   "U+0018", "U+0019", "U+001A", "U+001B", "U+001C", "U+001D", "U+001E",
   "U+001F"}
ByteOrderMark == "U+FEFF"

\* the line boundaries of str.splitlines that the clean-up leaves in the text
LineBoundaries == {"\n", "\r", "U+0085", "U+2028", "U+2029"}

\* t at the positions K, in order
KeptAt(t, K) ==
  [j \in 1..Cardinality(K) |-> t[CHOOSE k \in K : Cardinality({m \in K : m <= k}) = j]]

\* f.read() of a file opened in text mode: "\r\n" and a lone "\r" are read
\* as "\n"
CrLfAsOne(t) ==
  IF \A k \in 1..Len(t) : t[k] # "\r" THEN t
  ELSE KeptAt(t, {k \in 1..Len(t) : ~(t[k] = "\n" /\ k > 1 /\ t[k - 1] = "\r")})
UniversalNewlines(t) ==
  [k \in 1..Len(CrLfAsOne(t)) |->
     IF CrLfAsOne(t)[k] = "\r" THEN "\n" ELSE CrLfAsOne(t)[k]]

\* raw.replace("\ufeff", "").replace("\u00a0", " "), then the control
\* characters removed
Cleaned(s) ==
  SelectSeq([k \in 1..Len(s) |-> IF s[k] = "U+00A0" THEN " " ELSE s[k]],
            LAMBDA c : c # ByteOrderMark /\ c \notin ControlChars)

\* raw.splitlines() on the text t, which ends with a line feed: the pieces
\* of t between its line boundaries
splitlines(t) ==
  Take(SplitAt(t, {k \in 1..Len(t) : t[k] \in LineBoundaries}),
       Cardinality({k \in 1..Len(t) : t[k] \in LineBoundaries}))

\* what read_text makes of the lines of the file, each ended by a line feed
RECURSIVE read_text(_)
read_text(ls) ==
  IF Len(ls) = 0 THEN <<>>
  ELSE splitlines(Cleaned(UniversalNewlines(Head(ls) \o <<"\n">>)))
         \o read_text(Tail(ls))

\* the lines read_text returns for the file
FileLines(f) ==
  read_text((IF f.header THEN <<HeaderLine>> ELSE <<>>) \o LinesOf(f.chunks))

(***************************************************************************)
(* main                                                                    *)
(***************************************************************************)
VARIABLES
  pc,          \* where main stands
  args,        \* the command line: cal, no_print, rename
  file,        \* the input file
  raw_lines,   \* the lines read from it
  i,           \* the cursor of parse_text_report
  out,         \* the records parse_text_report has appended
  records,     \* the records main got
  pages,       \* the rendered pages, trailing blank lines trimmed
  text_blob,   \* the text for the printer
  printed_ok,
  preview,     \* the preview file: "none", "written", "failed"
  debug,       \* the debug dump: "none", "written", "failed"
  sent,        \* the device transmission: "none", "ok", "error", "exit"
  renamed,     \* the rename of the input: "none", "done", "failed"
  call,        \* a call of a page helper
  result       \* and what it returned

vars == <<pc, args, file, raw_lines, i, out, records, pages, text_blob,
          printed_ok, preview, debug, sent, renamed, call, result>>

io == <<printed_ok, preview, debug, sent, renamed>>
helper == <<call, result>>

Args == [cal : BOOLEAN, no_print : BOOLEAN, rename : BOOLEAN]

NoCall == [op |-> "none"]

InitCommon ==
  /\ i = 0 /\ out = <<>> /\ records = <<>> /\ pages = <<>> /\ text_blob = <<>>
  /\ printed_ok = FALSE
  /\ preview = "none" /\ debug = "none" /\ sent = "none" /\ renamed = "none"

Init ==
  /\ pc = "start"
  /\ args \in Args
  /\ file \in Contents(MaxMainChunks) \cup {NoContent(TRUE), NoContent(FALSE)}
  /\ raw_lines = <<>>
  /\ InitCommon
  /\ call = NoCall /\ result = NoCall

\* send_raw_to_printer returns ("ok"), raises an Exception ("error"), or
\* raises SystemExit because pywin32 cannot be imported ("exit")
Transmissions == {"ok", "error", "exit"}

\* --cal: the calibration page is sent and main returns
Calibrate ==
  /\ pc = "start" /\ args.cal
  /\ \E o \in Transmissions :
       /\ sent' = o
       /\ pc' = IF o = "exit" THEN "exit" ELSE "done"
  /\ UNCHANGED <<args, file, raw_lines, i, out, records, pages, text_blob,
                 printed_ok, preview, debug, renamed, call, result>>

\* os.path.isfile fails, or read_text raises: a message, and main returns
NoInput ==
  /\ pc = "start" /\ ~args.cal
  /\ ~(file.exists /\ file.readable)
  /\ pc' = "done"
  /\ UNCHANGED <<args, file, raw_lines, i, out, records, pages, text_blob, io, helper>>

ReadInput ==
  /\ pc = "start" /\ ~args.cal
  /\ file.exists /\ file.readable
  /\ raw_lines' = FileLines(file)
  /\ pc' = "report_start"
  /\ UNCHANGED <<args, file, i, out, records, pages, text_blob, io, helper>>

\* records = parse_text_report(raw_lines) or parse_blocks(raw_lines): where
\* main goes when parse_text_report returns out
AfterReport(returned) == IF Len(returned) > 0 THEN "render" ELSE "blocks"

\* a main that would render whatever it got
AfterParse_AlwaysRender(recs) == "render"

\* if not records: where main goes with the records it got
AfterParse(recs) == IF Len(recs) = 0 THEN "norecords" ELSE "render"

\* parse_text_report up to its outer loop: the header row is looked for
ReportStart ==
  /\ pc = "report_start"
  /\ \E hdr \in {find_header(raw_lines)} :
       IF hdr = -1
       THEN /\ pc' = AfterReport(<<>>)
            /\ UNCHANGED i
       ELSE /\ pc' = "report"
            /\ i' = hdr + 1
  /\ UNCHANGED <<args, file, raw_lines, out, records, pages, text_blob, io, helper>>

\* one iteration of the outer loop of parse_text_report
ReportStep ==
  /\ pc = "report" /\ i < Len(raw_lines)
  /\ \E st \in {record_step(raw_lines, i)} :
       /\ i' = st.i
       /\ IF Emits(st.how)
          THEN /\ out' = Append(out, st.rec)
               /\ pc' = "report"
               /\ UNCHANGED records
          ELSE /\ pc' = AfterReport(out)
               /\ records' = out
               /\ UNCHANGED out
  /\ UNCHANGED <<args, file, raw_lines, pages, text_blob, io, helper>>

\* the outer loop ends with the cursor at the end of the input
ReportReturn ==
  /\ pc = "report" /\ i >= Len(raw_lines)
  /\ pc' = AfterReport(out)
  /\ records' = out
  /\ UNCHANGED <<args, file, raw_lines, i, out, pages, text_blob, io, helper>>

\* parse_blocks, when parse_text_report returned no record
Blocks ==
  /\ pc = "blocks"
  /\ \E recs \in {parse_blocks(raw_lines)} :
       /\ records' = recs
       /\ pc' = AfterParse(recs)
  /\ UNCHANGED <<args, file, raw_lines, i, out, pages, text_blob, io, helper>>

\* no record: the debug dump is written, or fails to be, and main returns
NoRecords ==
  /\ pc = "norecords"
  /\ \E ok \in BOOLEAN : debug' = IF ok THEN "written" ELSE "failed"
  /\ pc' = "done"
  /\ UNCHANGED <<args, file, raw_lines, i, out, records, pages, text_blob,
                 printed_ok, preview, sent, renamed, call, result>>

\* render_check_page(r) for r in records
rendered(recs) == [k \in 1..Len(recs) |-> render_check_page(recs[k])]

\* render_check_page raises for one of the records
RenderRaises(rs) == \E k \in 1..Len(rs) : ~rs[k].ok

\* the pages, their trailing blank lines trimmed
TrimmedPages(rs) == [k \in 1..Len(rs) |-> trim_trailing_blank_lines(rs[k].page)]

\* "Render all pages": nothing catches what render_check_page raises
Render ==
  /\ pc = "render"
  /\ \E rs \in {rendered(records)} :
       IF RenderRaises(rs)
       THEN /\ pc' = "crashed"
            /\ UNCHANGED <<pages, text_blob>>
       ELSE /\ pages' = TrimmedPages(rs)
            /\ text_blob' = blob_of(pages')
            /\ pc' = "preview"
  /\ UNCHANGED <<args, file, raw_lines, i, out, records, io, helper>>

\* write_text: the preview is written, or the failure is printed
Preview ==
  /\ pc = "preview"
  /\ \E ok \in BOOLEAN : preview' = IF ok THEN "written" ELSE "failed"
  /\ pc' = "print"
  /\ UNCHANGED <<args, file, raw_lines, i, out, records, pages, text_blob,
                 printed_ok, debug, sent, renamed, call, result>>

\* "Print?": the text goes to the device unless --no-print
Transmit ==
  /\ pc = "print"
  /\ IF args.no_print
     THEN /\ pc' = "rename"
          /\ UNCHANGED <<sent, printed_ok>>
     ELSE \E o \in Transmissions :
            /\ sent' = o
            /\ printed_ok' = (o = "ok")
            /\ pc' = IF o = "exit" THEN "exit" ELSE "rename"
  /\ UNCHANGED <<args, file, raw_lines, i, out, records, pages, text_blob,
                 preview, debug, renamed, call, result>>

\* a rename that would not wait for the transmission
ShouldRename_WithoutPrinted == args.rename

\* a rename that would also ask for the preview to have been written
ShouldRename_IfPreviewWritten == args.rename /\ printed_ok /\ preview = "written"

\* if args.rename and printed_ok
ShouldRename == args.rename /\ printed_ok

\* "Rename input if requested AND printed"
Rename ==
  /\ pc = "rename"
  /\ IF ShouldRename
     THEN \E ok \in BOOLEAN : renamed' = IF ok THEN "done" ELSE "failed"
     ELSE UNCHANGED renamed
  /\ pc' = "done"
  /\ UNCHANGED <<args, file, raw_lines, i, out, records, pages, text_blob,
                 printed_ok, preview, debug, sent, call, result>>

Extract == ReportStart \/ ReportStep \/ ReportReturn \/ Blocks

Next ==
  \/ Calibrate \/ NoInput \/ ReadInput
  \/ Extract
  \/ NoRecords \/ Render \/ Preview \/ Transmit \/ Rename

Spec == Init /\ [][Next]_vars

(***************************************************************************)
(* The extraction and the rendering alone, over the readable files: main   *)
(* after read_text has returned                                            *)
(***************************************************************************)
InitExtract ==
  /\ pc = "report_start"
  /\ args = [cal |-> FALSE, no_print |-> FALSE, rename |-> FALSE]
  /\ file \in Contents(MaxChunks)
  /\ raw_lines = FileLines(file)
  /\ InitCommon
  /\ call = NoCall /\ result = NoCall

NextExtract == Extract \/ Render

SpecExtract == InitExtract /\ [][NextExtract]_vars

(***************************************************************************)
(* The page helpers alone: one call of put or put_right on a line buffer   *)
(***************************************************************************)
\* a text of n characters that shows its positions
Ruler(n) == [k \in 1..n |-> DigitChars[(k % 10) + 1]]

PutLineBufs == {<<<<>>, Chars("Pay to the order of")>>, <<Rep("x", CPL), Chars("Memo")>>}
PutRows == -1..2
PutCols == 0..(CPL - 1)
TextLens == {0, 1, 5, AMT_RIGHT_COL - 1, AMT_RIGHT_COL, AMT_RIGHT_COL + 1, CPL, CPL + 10}
PutTexts == {Ruler(n) : n \in TextLens}
              \cup {Chars("41.79"), <<"J", "o", "s", "U+00E9", " ", "U+20AC", "5", "U+FB01">>}

PutCalls == [linebuf : PutLineBufs, row : PutRows, col : PutCols, text : PutTexts]

InitPut ==
  /\ pc = "call"
  /\ call \in PutCalls
  /\ result = NoCall
  /\ args = [cal |-> FALSE, no_print |-> FALSE, rename |-> FALSE]
  /\ file = NoContent(FALSE)
  /\ raw_lines = <<>>
  /\ InitCommon

\* put(linebuf, row, col, text)
CallPut ==
  /\ pc = "call"
  /\ result' = [op |-> "put", linebuf |-> put(call.linebuf, call.row, call.col, call.text)]
  /\ pc' = "returned"
  /\ UNCHANGED <<args, file, raw_lines, i, out, records, pages, text_blob, io, call>>

\* put_right(linebuf, row, right_col_1based, text) with the boundary col + 1
CallPutRight ==
  /\ pc = "call"
  /\ result' = [op |-> "put_right",
                linebuf |-> put_right(call.linebuf, call.row, call.col + 1, call.text)]
  /\ pc' = "returned"
  /\ UNCHANGED <<args, file, raw_lines, i, out, records, pages, text_blob, io, call>>

NextPut == CallPut \/ CallPutRight

SpecPut == InitPut /\ [][NextPut]_vars

(***************************************************************************)
(* money_words alone: one call on an amount of n dollars and c cents       *)
(***************************************************************************)
WordIntegers == {0, 1, 20, 100, 999, 1000, 21345, 1000000, 999999999}

\* Decimal of n dollars and c cents
AmountOf(n, c) == [neg |-> FALSE, units |-> NatChars(n), cents |-> c]

WordCalls == {[op |-> "money_words", n |-> n, c |-> c] : n \in WordIntegers, c \in 0..99}

InitWords ==
  /\ pc = "call"
  /\ call \in WordCalls
  /\ result = NoCall
  /\ args = [cal |-> FALSE, no_print |-> FALSE, rename |-> FALSE]
  /\ file = NoContent(FALSE)
  /\ raw_lines = <<>>
  /\ InitCommon

\* money_words(val)
CallMoneyWords ==
  /\ pc = "call" /\ call.op = "money_words"
  /\ \E w \in {money_words(AmountOf(call.n, call.c))} :
       result' = [op |-> "money_words", ok |-> w.ok, text |-> w.text]
  /\ pc' = "returned"
  /\ UNCHANGED <<args, file, raw_lines, i, out, records, pages, text_blob, io, call>>

NextWords == CallMoneyWords

SpecWords == InitWords /\ [][NextWords]_vars

(***************************************************************************)
(* parse_text_report alone, over reports made of a header row and records  *)
(* laid out in lines: a part is the lines of one record (or a footer), the *)
(* kind of layout it shows (tag), the lines before its amount line (body)  *)
(* and the check it was written for                                        *)
(***************************************************************************)
MaxParts == 2

Part(tag, lines, body, check) ==
  [kind |-> "lines", tag |-> tag, lines |-> lines, body |-> body, check |-> check]

\* the lines before the amount line of the legacy layouts
BodyLines == <<Chars("Century Link"), Chars("505-291-1047"), Chars("Acct 7"),
               Chars("August"), Chars("final")>>

\* a record without terminators: the date fused to the first of k lines,
\* the other lines, the amount line with the address, a blank line
LegacyPart(k) ==
  Part("legacy",
       <<Chars("08/07/2025") \o BodyLines[1]>> \o SubSeq(BodyLines, 2, k)
         \o <<Chars("41.79 PO Box 7"), <<>>>>,
       Take(BodyLines, k),
       NoCheck)

\* the same with three lines, blank lines between them and blanks around them
SpacedPart ==
  Part("legacy",
       <<Chars("08/07/2025  ") \o BodyLines[1], <<>>, Chars("  ") \o BodyLines[2] \o Chars("  "),
         Chars(" "), BodyLines[3] \o Chars(" "), Chars("41.79 PO Box 7"), <<>>>>,
       Take(BodyLines, 3),
       NoCheck)

Bob == Check("08/09/2025", Chars("Bob"), "memo", "12.00", <<Chars("PO Box 7")>>)

\* terminators on the date line, the amount on the next non-blank line
PeekPart ==
  Part("peek", <<Chars("08/09/2025Bob|memo|"), <<>>, Chars("12.00PO Box 7|"), <<>>>>, <<>>, Bob)

\* terminators on the date line, a line without amount, then the amount line
LatePart ==
  Part("late", <<Chars("08/09/2025Bob|memo|"), Chars("Suite 5"), Chars("12.00 PO Box 7"), <<>>>>,
       <<Chars("Bob|memo|"), Chars("Suite 5")>>, Bob)

\* terminators on the date line and no amount anywhere
NoAmountPart == Part("noamt", <<Chars("08/09/2025Bob|memo|")>>, <<>>, Bob)

\* the example of the documentation with its address on two lines, the
\* next record right after it
PipePart ==
  Part("pipe",
       <<Chars("08/07/2025Century Link|505-291-1047|41.79P.O. Box 2961|"), Chars("Phoenix, AZ|")>>,
       <<>>,
       Check("08/07/2025", Chars("Century Link"), "505-291-1047", "41.79",
             <<Chars("P.O. Box 2961"), Chars("Phoenix, AZ")>>))

FooterPart == Part("footer", <<FooterLine>>, <<>>, NoCheck)

\* a record without terminators and without an amount line
BarePart == Part("bare", <<Chars("08/09/2025Bob"), Chars("memo")>>, <<>>, NoCheck)

\* a record without terminators whose amount line holds a footer marker
MarkedPart ==
  Part("marked",
       <<Chars("08/09/2025Bob"), Chars("12.00 see custom-report-view"), <<>>>>,
       <<Chars("Bob")>>, NoCheck)

\* a record as the file holds it before read_text cleans it: a form feed
\* ahead of the date and a non-breaking space inside the address
UncleanPart ==
  Part("unclean",
       <<<<"\f">> \o Chars("08/09/2025Bob|memo|12.00PO") \o <<"U+00A0">> \o Chars("Box 7|")>>,
       <<>>, Bob)

PartPool ==
  {LegacyPart(k) : k \in 1..5}
    \cup {SpacedPart, PeekPart, LatePart, NoAmountPart, PipePart, FooterPart,
          MarkedPart, BarePart, UncleanPart}

Reports(maxp) ==
  {[exists |-> TRUE, readable |-> TRUE, header |-> TRUE, chunks |-> ps] :
     ps \in UNION {[1..n -> PartPool] : n \in 0..maxp}}

InitRecords ==
  /\ pc = "report_start"
  /\ args = [cal |-> FALSE, no_print |-> FALSE, rename |-> FALSE]
  /\ file \in Reports(MaxParts)
  /\ raw_lines = FileLines(file)
  /\ InitCommon
  /\ call = NoCall /\ result = NoCall

NextRecords == ReportStart \/ ReportStep \/ ReportReturn

SpecRecords == InitRecords /\ [][NextRecords]_vars

(***************************************************************************)
(* normalize_addr alone: one call on the address lines of a record laid    *)
(* out without terminators                                                 *)
(***************************************************************************)
AddrStreets == {Chars("123 Main St"), Chars("12345 Main St"), Chars("PO Box 7")}
AddrCities == {Chars(", Anytown"), <<>>}
\* state and ZIP code, with or without a comma before them
ZipTails == {Chars(", CA 90210"), Chars(" CA 90210"), Chars(", CA   90210"),
             Chars(", NV 89501-1234")}
AddrTails == ZipTails \cup {Chars(", CA"), <<>>}
AddrForms == {"alone", "after blank", "with second"}

AddrCalls ==
  [op : {"normalize_addr"}, street : AddrStreets, city : AddrCities,
   tail : AddrTails, form : AddrForms]

\* the run-on line "street, city, ST 12345"
AddrLine(c) == c.street \o c.city \o c.tail

\* the address lines passed to normalize_addr
AddrInput(c) ==
  CASE c.form = "alone" -> <<AddrLine(c)>>
    [] c.form = "after blank" -> <<Chars("  "), AddrLine(c) \o Chars(" ")>>
    [] c.form = "with second" -> <<AddrLine(c), Chars("Suite 5")>>

InitAddr ==
  /\ pc = "call"
  /\ call \in AddrCalls
  /\ result = NoCall
  /\ args = [cal |-> FALSE, no_print |-> FALSE, rename |-> FALSE]
  /\ file = NoContent(FALSE)
  /\ raw_lines = <<>>
  /\ InitCommon

\* normalize_addr(addr_lines)
CallNormalizeAddr ==
  /\ pc = "call" /\ call.op = "normalize_addr"
  /\ result' = [op |-> "normalize_addr", parts |-> normalize_addr(AddrInput(call))]
  /\ pc' = "returned"
  /\ UNCHANGED <<args, file, raw_lines, i, out, records, pages, text_blob, io, call>>

NextAddr == CallNormalizeAddr

SpecAddr == InitAddr /\ [][NextAddr]_vars

(***************************************************************************)
(* parse_blocks alone, over inputs without a header row made of blocks: a  *)
(* bare date line, body lines, a line that is exactly an amount, and the   *)
(* lines after it                                                          *)
(***************************************************************************)
BlockBody == <<Chars("Jo Doe"), Chars("Dept 4|x"), Chars("refund")>>

PipedPost == Chars("PO Box 7| Reno, NV|")
PlainPosts == {Chars("Suite 5"), Chars("12.00 Main St")}

BlockPosts ==
  {<<>>, <<PipedPost>>, <<Chars("Suite 5"), PipedPost, Chars("12.00 Main St")>>}

\* the address the lines post give: the pieces of the line with terminators
PostAddr(post) ==
  IF Len(post) = 0 THEN <<>> ELSE <<Chars("PO Box 7"), Chars("Reno, NV")>>

\* a block of k body lines
BlockPart(k, post) ==
  Part("block",
       <<Chars("08/09/2025")>> \o Take(BlockBody, k) \o <<Chars("-41.79")>> \o post,
       Take(BlockBody, k),
       Check("08/09/2025", <<>>, "", "-41.79", PostAddr(post)))

\* a block with two lines that are exactly an amount and a blank line
TwoAmountPart(post) ==
  Part("block",
       <<Chars(" 08/10/2025 "), Chars("Jo Doe"), Chars("1,250.00"), <<>>,
         Chars("refund"), Chars("  41.79 ")>> \o post,
       <<Chars("Jo Doe"), Chars("1,250.00"), Chars("refund")>>,
       Check("08/10/2025", <<>>, "", "41.79", PostAddr(post)))

BlockPool ==
  {BlockPart(k, post) : k \in 0..3, post \in BlockPosts}
    \cup {TwoAmountPart(post) : post \in BlockPosts}

BlockFiles(maxp) ==
  {[exists |-> TRUE, readable |-> TRUE, header |-> FALSE, chunks |-> ps] :
     ps \in UNION {[1..n -> BlockPool] : n \in 0..maxp}}

InitBlocks ==
  /\ pc = "blocks"
  /\ args = [cal |-> FALSE, no_print |-> FALSE, rename |-> FALSE]
  /\ file \in BlockFiles(MaxParts)
  /\ raw_lines = FileLines(file)
  /\ InitCommon
  /\ call = NoCall /\ result = NoCall

NextBlocks == Blocks

SpecBlocks == InitBlocks /\ [][NextBlocks]_vars

(***************************************************************************)
(* render_check_page alone: one call on a record whose payee, memo and     *)
(* address hold typographic punctuation, letters with diacritics and other *)
(* non-ASCII characters                                                    *)
(***************************************************************************)
\* texts of a record, each with what the replacements of SMART_MAP alone
\* make of it (subst) and what stands on a page printed from it (ascii)
RenderTexts ==
  {[text  |-> <<"J", "o", "s", "U+00E9", " ", "P", "e", "U+00F1", "a">>,
    subst |-> <<"J", "o", "s", "U+00E9", " ", "P", "e", "U+00F1", "a">>,
    ascii |-> Chars("Jose Pena")],
   [text  |-> <<"G", "r", "a", "s", "s", "o", "U+2019", "s">>,
    subst |-> Chars("Grasso's"),
    ascii |-> Chars("Grasso's")],
   [text  |-> <<"U+20AC", "5", " ", "U+FB01", "x">>,
    subst |-> <<"U+20AC", "5", " ", "U+FB01", "x">>,
    ascii |-> Chars("5 fix")],
   [text  |-> <<"A", "U+2013", "B", "U+00A0", "C">>,
    subst |-> Chars("A-B C"),
    ascii |-> Chars("A-B C")],
   [text  |-> Chars("Acme Supply"),
    subst |-> Chars("Acme Supply"),
    ascii |-> Chars("Acme Supply")]}

RenderCalls ==
  {[op |-> "render_check_page",
    rec |-> [date |-> Chars("08/08/2025"), payee |-> p.text, memo |-> m.text,
             addr |-> <<a.text>>,
             amount |-> [neg |-> FALSE, units |-> Chars("41"), cents |-> 79]]] :
     p \in RenderTexts, m \in RenderTexts, a \in RenderTexts}

InitRender ==
  /\ pc = "call"
  /\ call \in RenderCalls
  /\ result = NoCall
  /\ args = [cal |-> FALSE, no_print |-> FALSE, rename |-> FALSE]
  /\ file = NoContent(FALSE)
  /\ raw_lines = <<>>
  /\ InitCommon

\* render_check_page(rec)
CallRenderCheckPage ==
  /\ pc = "call"
  /\ \E r \in {render_check_page(call.rec)} :
       result' = [op |-> "render_check_page", ok |-> r.ok, page |-> r.page]
  /\ pc' = "returned"
  /\ UNCHANGED <<args, file, raw_lines, i, out, records, pages, text_blob, io, call>>

NextRender == CallRenderCheckPage

SpecRender == InitRender /\ [][NextRender]_vars

(***************************************************************************)
(* Properties                                                              *)
(***************************************************************************)
\* the text t stands on the page from (row, col), as far as the line goes
FieldAt(page, row, col, t) ==
  /\ row + 1 <= Len(page)
  /\ \A k \in 1..Len(t) :
       col + k <= CPL => /\ col + k <= Len(page[row + 1])
                         /\ page[row + 1][col + k] = t[k]

\* the header row and then date-led records with the field terminators only
PipeRecordsOnly(f) ==
  /\ f.header
  /\ Len(f.chunks) > 0
  /\ \A k \in 1..Len(f.chunks) : f.chunks[k].kind = "pipe"

\* main has the pages, or render_check_page has raised
AfterRender == pc \in {"preview", "print", "rename", "crashed"}

\* the record is the check the line was written for, as far as date, payee
\* and memo tell
SameCheck(rec, check) ==
  rec.date = check.date /\ rec.payee = check.payee /\ rec.memo = check.memo

(* C1: the input file is renamed only if --rename was given and the device *)
(* transmission of the same run completed without error; a run whose       *)
(* transmission fails, or with --no-print, never attempts the rename.      *)
C1_RenameOnlyAfterTransmission ==
  /\ renamed # "none" => (args.rename /\ ~args.no_print /\ sent = "ok" /\ printed_ok)
  /\ (args.no_print \/ sent \in {"error", "exit"}) => renamed = "none"

C1_Renamed == renamed = "done" /\ sent = "ok" /\ args.rename /\ pc = "done"

\* neither parse_text_report nor parse_blocks yields a record for the lines
\* main has read
NoRecordsRead ==
  /\ pc # "start" /\ ~args.cal /\ file.exists /\ file.readable
  /\ parse_text_report(raw_lines) = <<>>
  /\ parse_blocks(raw_lines) = <<>>

(* C2: when neither parser yields a record, main writes (or attempts to    *)
(* write) the debug dump and stops: no preview is written, the transport   *)
(* is not invoked, the input is not renamed; and the dump is attempted in  *)
(* no other run.                                                           *)
C2_NoRecordsStops ==
  /\ NoRecordsRead =>
       /\ preview = "none" /\ sent = "none" /\ renamed = "none" /\ pages = <<>>
       /\ pc \in {"report_start", "report", "blocks", "norecords", "done"}
       /\ pc = "done" => debug # "none"
  /\ debug # "none" => NoRecordsRead /\ pc = "done"

C2_Dumped == debug = "written" /\ pc = "done" /\ Len(raw_lines) > 1 /\ NoRecordsRead

(* C3: for a header line followed by k date-led records that all use the   *)
(* field terminators, the extractor returns exactly k records in input     *)
(* order and main renders exactly k pages, page j from record j.           *)
C3_OnePagePerRecord ==
  (PipeRecordsOnly(file) /\ AfterRender) =>
     /\ Len(records) = Len(file.chunks)
     /\ \A j \in 1..Len(records) : SameCheck(records[j], file.chunks[j].check)
     /\ Len(pages) = Len(file.chunks)
     /\ \A j \in 1..Len(pages) :
          pages[j] = trim_trailing_blank_lines(render_check_page(records[j]).page)

(* C4: a date-led line '<payee>|<memo>|<amount><addr1>|<addr2>|...|' after *)
(* the header yields one record with payee = token 0, memo = token 1,      *)
(* amount = the amount token, and address = the trimmed non-empty pieces   *)
(* that follow the amount, in order.                                       *)
C4_PipeFields ==
  (PipeRecordsOnly(file) /\ AfterRender) =>
     /\ Len(records) = Len(file.chunks)
     /\ \A j \in 1..Len(records) :
          /\ SameCheck(records[j], file.chunks[j].check)
          /\ records[j].amount = Decimal(RemoveChar(file.chunks[j].check.amount, ","))
          /\ records[j].addr = file.chunks[j].check.addr

\* the fields of the face of the check stand at their coordinates
FaceAt(page, rec) ==
  /\ FieldAt(page, ROW_DATE, COL_DATE, asciiize(rec.date))
  /\ FieldAt(page, ROW_PAYEE, COL_PAYEE, asciiize(sanitize(rec.payee)))
  /\ FieldAt(page, ROW_AMT_NUM, C(AMT_RIGHT_COL) - Len(FormatAmount(rec.amount)) + 1,
             FormatAmount(rec.amount))
  /\ FieldAt(page, ROW_WORDS, COL_WORDS, money_words(rec.amount).text)
  /\ \A k \in 1..Min(4, Len(rec.addr)) :
       FieldAt(page, ROW_ADDR_START + k - 1, COL_ADDR, asciiize(sanitize(rec.addr[k])))
  /\ FieldAt(page, ROW_MEMO, COL_MEMO, asciiize(sanitize(rec.memo)))

(* C5: on the page of any record each field of the check face (date,       *)
(* payee, numeric amount, amount in words, address lines, memo) stands at  *)
(* its fixed coordinate and none overwrites another: the date at           *)
(* (ROW_DATE, COL_DATE) is intact after the payee is placed on its row.    *)
C5_FieldsAtCoordinates ==
  \A j \in 1..Len(pages) : FaceAt(pages[j], records[j])

\* what put makes of the line old when it writes t from column col
LineAfterPut(old, col, t, new) ==
  /\ Len(new) = Max(Len(old), Min(col + Len(t), CPL))
  /\ Len(old) <= CPL => Len(new) <= CPL
  /\ \A k \in 1..Len(new) :
       new[k] = IF k > col /\ k <= col + Len(t) THEN t[k - col]
                ELSE IF k <= Len(old) THEN old[k] ELSE " "

\* what put makes of the line buffer when it writes t at (row, col)
BufferAfterPut(linebuf, row, col, t, new) ==
  /\ Len(new) = Len(linebuf)
  /\ \A r \in 1..Len(linebuf) :
       IF r = row + 1 THEN LineAfterPut(linebuf[r], col, t, new[r])
       ELSE new[r] = linebuf[r]

(* C6 as stated: put, for any row, any col in 0..79 and any text, pads a   *)
(* shorter line with spaces up to col, writes text[i] at column col + i    *)
(* only when col + i < 80, and leaves every other row and every other      *)
(* character of the row unchanged; a line never grows beyond 80.           *)
C6_PutWritesText ==
  result.op = "put" =>
    BufferAfterPut(call.linebuf, call.row, call.col, call.text, result.linebuf)

(* C6: the same, for the characters put writes: those of asciiize(text),   *)
(* the text after the typographic replacements, with diacritics folded to  *)
(* their base letters and the characters without an ASCII form dropped.    *)
C6_PutWritesAscii ==
  result.op = "put" =>
    BufferAfterPut(call.linebuf, call.row, call.col, asciiize(call.text), result.linebuf)

\* a call in range that pads the line, folds the text and cuts it at CPL
C6_PadsAndCuts ==
  /\ result.op = "put"
  /\ call.row >= 0 /\ call.row < Len(call.linebuf)
  /\ Len(call.linebuf[call.row + 1]) < call.col
  /\ asciiize(call.text) # call.text
  /\ call.col + Len(asciiize(call.text)) > CPL

\* the call of put_right is for a row of the buffer
RightInRange == result.op = "put_right" /\ call.row >= 0 /\ call.row < Len(call.linebuf)

\* the text ends on the 1-based boundary column and nothing of the line to
\* the right of it has changed
EndsAt(old, boundary, text, new) ==
  /\ Len(new) >= boundary
  /\ \A k \in 1..Len(text) : boundary - Len(text) + k >= 1
                               /\ new[boundary - Len(text) + k] = text[k]
  /\ \A k \in (boundary + 1)..Len(new) : k <= Len(old) /\ new[k] = old[k]

(* C7 as stated: put_right writes the text so that its last character      *)
(* lands exactly on the 1-based boundary column, for every text length,    *)
(* wider texts included: nothing is written to the right of the boundary.  *)
C7_EndsAtBoundary ==
  (RightInRange /\ Len(call.text) > 0) =>
    EndsAt(call.linebuf[call.row + 1], call.col + 1, call.text,
           result.linebuf[call.row + 1])

(* C7: put_right writes the text as put does from the 0-based column     *)
(* max(0, boundary - len(text)).  An ASCII text no longer than the         *)
(* boundary column ends exactly on it and nothing to its right changes; a  *)
(* longer one is written from column 0 on and so runs past the boundary.   *)
C7_EndsAtBoundaryIfItFits ==
  RightInRange =>
    /\ LineAfterPut(call.linebuf[call.row + 1], Max(0, call.col + 1 - Len(call.text)),
                    asciiize(call.text), result.linebuf[call.row + 1])
    /\ (Len(call.text) > 0 /\ asciiize(call.text) = call.text) =>
         IF Len(call.text) <= call.col + 1
         THEN EndsAt(call.linebuf[call.row + 1], call.col + 1, call.text,
                     result.linebuf[call.row + 1])
         ELSE call.col + 2 <= CPL =>
                result.linebuf[call.row + 1][call.col + 2] = call.text[call.col + 2]

\* a text exactly as wide as the field: it fills columns 1..boundary
C7_FillsField ==
  /\ RightInRange
  /\ asciiize(call.text) = call.text
  /\ Len(call.text) = call.col + 1
  /\ Len(call.text) > 1

(* C8: no run of main ends in an unhandled exception: whatever the lines   *)
(* and whatever fails, main prints a message and continues or returns.     *)
C8_NoUnhandledException == pc # "crashed"

(* C9 as stated: every record an extraction strategy emits has an address  *)
(* of at most 4 entries.                                                   *)
C9_AddressAtMostFour ==
  /\ \A j \in 1..Len(out) : Len(out[j].addr) <= 4
  /\ \A j \in 1..Len(records) : Len(records[j].addr) <= 4

\* the rows of the address block after the n lines shown hold nothing
AddrBlockEnds(page, n) ==
  \A r \in (ROW_ADDR_START + n)..(ROW_MEMO - 1) : IsBlank(page[r + 1])

(* C9: a record's address holds every piece the input gives, which can be  *)
(* more than 4; the page shows the first 4 of them, one per row from       *)
(* ROW_ADDR_START, and the rows after them up to the memo row stay blank.  *)
C9_PageShowsFirstFour ==
  \A j \in 1..Len(pages) :
    /\ \A k \in 1..Min(4, Len(records[j].addr)) :
         FieldAt(pages[j], ROW_ADDR_START + k - 1, COL_ADDR,
                 asciiize(sanitize(records[j].addr[k])))
    /\ AddrBlockEnds(pages[j], Min(4, Len(records[j].addr)))

\* a page has been rendered for a record with more than 4 address entries
C9_FivePieces ==
  /\ pc = "preview"
  /\ \E j \in 1..Len(pages) : Len(records[j].addr) > 4

\* the row of the page shows no minus sign
NoMinus(page, row) == \A k \in 1..Len(page[row + 1]) : page[row + 1][k] # "-"

\* the amount without its sign
Unsigned2f(amount) == FormatAmount([amount EXCEPT !.neg = FALSE])

(* C10: the amount of every record is displayed non-negative: whatever     *)
(* sign the token carries, the numeric amount, the words and the stub      *)
(* amounts on the page show no minus sign and the unsigned value.          *)
C10_DisplayedNonNegative ==
  \A j \in 1..Len(pages) :
    /\ NoMinus(pages[j], ROW_AMT_NUM) /\ NoMinus(pages[j], ROW_WORDS)
    /\ NoMinus(pages[j], ROW_STUB1 + 2) /\ NoMinus(pages[j], ROW_STUB2 + 2)
    /\ FieldAt(pages[j], ROW_AMT_NUM,
               C(AMT_RIGHT_COL) - Len(Unsigned2f(records[j].amount)) + 1,
               Unsigned2f(records[j].amount))
    /\ FieldAt(pages[j], ROW_STUB1 + 2, COL_STUB_VAL,
               <<"$">> \o Unsigned2f(records[j].amount))
    /\ FieldAt(pages[j], ROW_STUB2 + 2, COL_STUB_VAL,
               <<"$">> \o Unsigned2f(records[j].amount))

\* the English spelling of the integers of WordIntegers, first letter capital
Spelling(n) ==
  CASE n = 0 -> "Zero"
    [] n = 1 -> "One"
    [] n = 20 -> "Twenty"
    [] n = 100 -> "One hundred"
    [] n = 999 -> "Nine hundred ninety nine"
    [] n = 1000 -> "One thousand"
    [] n = 21345 -> "Twenty one thousand three hundred forty five"
    [] n = 1000000 -> "One million"
    [] n = 999999999 ->
         "Nine hundred ninety nine million nine hundred ninety nine thousand nine hundred ninety nine"

\* the cents as two digits
TwoDigits(c) == <<DigitChars[(c \div 10) + 1], DigitChars[(c % 10) + 1]>>

(* C11: for n dollars (n one of 0, 1, 20, 100, 999, 1000, 21345, 1000000,  *)
(* 999999999) and c cents (0..99) money_words returns the spelling of n,   *)
(* " dollar" exactly when n = 1 and " dollars" otherwise, then " and cc/100"*)
(* with the cents as two digits, only the first letter a capital.          *)
C11_MoneyWordsSpelling ==
  result.op = "money_words" =>
    /\ result.ok
    /\ result.text = Chars(Spelling(call.n))
                       \o Chars(IF call.n = 1 THEN " dollar" ELSE " dollars")
                       \o Chars(" and ") \o TwoDigits(call.c) \o Chars("/100")

\* one dollar, or the largest amount, has been put in words
C11_SpelledOut == result.op = "money_words" /\ call.n \in {1, 999999999} /\ call.c = 7

\* parse_text_report has returned
ReportEnded == pc \notin {"report_start", "report"}

\* the part yields one record of its own
Regular(part) == part.tag \in {"legacy", "peek", "late", "pipe"}

\* the parts up to the k-th yield one record each, so that record k is the
\* record of part k
InStep(f, k) == \A m \in 1..k : Regular(f.chunks[m])

\* the split by the number of lines, as stated
SplitPayee(body) ==
  CASE Len(body) = 1 -> body[1]
    [] Len(body) = 2 -> body[1]
    [] Len(body) = 3 -> body[1]
    [] Len(body) >= 4 -> body[1] \o <<" ">> \o body[2]

SplitMemo(body) ==
  CASE Len(body) = 1 -> <<>>
    [] Len(body) = 2 -> body[2]
    [] Len(body) = 3 -> body[2] \o <<" ">> \o body[3]
    [] Len(body) >= 4 -> JoinWith(SubSeq(body, 3, Len(body)), <<" ">>)

(* C12: in the legacy heuristic payee and memo follow from the number k of *)
(* non-blank lines before the amount line alone: k = 1 payee = line 1 and  *)
(* no memo; k = 2 payee = line 1, memo = line 2; k = 3 payee = line 1,     *)
(* memo = lines 2-3 joined; k >= 4 payee = lines 1-2 joined, memo = the    *)
(* other lines joined.                                                     *)
C12_SplitByLineCount ==
  ReportEnded =>
    \A k \in 1..Len(file.chunks) :
      (file.chunks[k].tag = "legacy" /\ InStep(file, k)) =>
        /\ Len(out) >= k
        /\ out[k].payee = SplitPayee(file.chunks[k].body)
        /\ out[k].memo = SplitMemo(file.chunks[k].body)

\* a record of five lines before the amount, after one of three, is out
C12_FiveLines ==
  /\ ReportEnded /\ Len(file.chunks) = 2 /\ Len(out) = 2
  /\ file.chunks[1].tag = "legacy" /\ Len(file.chunks[1].body) = 3
  /\ file.chunks[2].tag = "legacy" /\ Len(file.chunks[2].body) = 5

\* the line of the call has a comma before its ZIP code
CommaBeforeZip(c) == c.tail \in ZipTails /\ (c.tail[1] = "," \/ c.city # <<>>)

\* the text before and after the nearest comma that precedes the ZIP code
BeforeComma(c) == IF c.tail[1] = "," THEN c.street \o c.city ELSE c.street
AfterComma(c) == IF c.tail[1] = "," THEN Tail(c.tail) ELSE Tail(c.city) \o c.tail

(* C13: a single address line without terminator is split at the nearest   *)
(* comma before its ZIP code: line 1 is the text before that comma, line 2 *)
(* the text after it through the end, ZIP included (compared here without  *)
(* regard to blanks), so "street, city, ST 12345" gives two lines; a line  *)
(* with no ZIP code, or no comma before it, is returned as it is.          *)
C13_SplitsBeforeZip ==
  (result.op = "normalize_addr" /\ call.form # "with second") =>
    IF CommaBeforeZip(call)
    THEN /\ Len(result.parts) = 2
         /\ result.parts[1] = BeforeComma(call)
         /\ RemoveSpaces(result.parts[2]) = RemoveSpaces(AfterComma(call))
    ELSE result.parts = <<AddrLine(call)>>

(* C14: a failure to write the preview is not fatal: main still goes on to *)
(* the device transmission (unless --no-print) with the pages it rendered, *)
(* and whether the input is renamed follows from --rename and the outcome  *)
(* of the transmission alone.                                              *)
C14_PreviewFailureNotFatal ==
  preview # "none" =>
    /\ pc \in {"print", "rename", "done", "exit"}
    /\ Len(pages) = Len(records) /\ text_blob = blob_of(pages)
    /\ pc \in {"rename", "done", "exit"} => (args.no_print \/ sent # "none")
    /\ pc = "done" => (renamed # "none" <=> (args.rename /\ sent = "ok"))

\* the preview failed, the transmission went through and the input was renamed
C14_RenamedWithoutPreview ==
  preview = "failed" /\ sent = "ok" /\ renamed = "done" /\ pc = "done"

\* the pages of the device-bound text: what stands before each form feed
BlobPages == SplitOn(text_blob, "\f")

\* a line of the device-bound text without the carriage return that ends it
DropCR(ln) ==
  IF Len(ln) > 0 /\ ln[Len(ln)] = "\r" THEN Take(ln, Len(ln) - 1) ELSE ln

\* the lines of page p of the device-bound text
WithoutCR(ls) == [r \in 1..Len(ls) |-> DropCR(ls[r])]
BlobLines(p) == WithoutCR(SplitOn(BlobPages[p], "\n"))

\* the 54 lines of page p as render_check_page gave them
FullPage(p) == render_check_page(records[p]).page

(* C15 (as the spec states it): in the device-bound text every retained    *)
(* line of every page is exactly 80 characters wide.                       *)
C15_EveryLineFullWidth ==
  Len(pages) > 0 =>
    \A p \in 1..Len(pages) : \E bl \in {BlobLines(p)} :
      \A r \in 1..Len(bl) : Len(bl[r]) = CPL

(* C15 (amended): the device-bound text has one page per record, closed by *)
(* a form feed; the lines of a page are the lines render_check_page gave   *)
(* up to its last non-blank line, so only trailing all-blank lines are     *)
(* missing; every line before the last is exactly 80 wide, and the last    *)
(* line is that 80-wide line with its trailing blanks removed.             *)
C15_LinesOfBlob ==
  Len(pages) > 0 =>
    /\ Len(BlobPages) = Len(records) + 1
    /\ BlobPages[Len(BlobPages)] = <<>>
    /\ \A p \in 1..Len(records) :
         \E bl \in {BlobLines(p)}, fp \in {FullPage(p)} :
           /\ Len(bl) >= 1 /\ Len(bl) <= LINES_PER_PAGE
           /\ Len(fp) = LINES_PER_PAGE
           /\ \A r \in 1..(Len(bl) - 1) : Len(bl[r]) = CPL /\ bl[r] = fp[r]
           /\ Len(fp[Len(bl)]) = CPL
           /\ ~IsBlank(fp[Len(bl)])
           /\ bl[Len(bl)] = rstrip(fp[Len(bl)])
           /\ \A r \in (Len(bl) + 1)..LINES_PER_PAGE : IsBlank(fp[r])

\* two pages were built and the last line of the first is shorter than 80
C15_ShortLastLine ==
  /\ Len(pages) = 2
  /\ \E bl \in {BlobLines(1)} :
       Len(bl) > 1 /\ Len(bl[1]) = CPL /\ Len(bl[Len(bl)]) < CPL

\* part k has terminators on its date line and the fast path finds no
\* amount for it; the legacy loop finds one further down
FastPathFails(f, k) ==
  /\ InStep(f, k - 1)
  /\ \/ f.chunks[k].tag = "late"
     \/ /\ f.chunks[k].tag = "noamt" /\ k < Len(f.chunks)
        /\ f.chunks[k + 1].tag = "legacy"

\* the non-blank lines from the date line of part k to the next line that
\* starts with an amount, the date taken off the first and the blanks
\* around each removed
LinesToAmount(f, k) ==
  IF f.chunks[k].tag = "late" THEN f.chunks[k].body
  ELSE <<Chars("Bob|memo|"), strip(f.chunks[k + 1].lines[1])>>
         \o Tail(f.chunks[k + 1].body)

\* the amount line that ends them
AmountAfter(f, k) ==
  IF f.chunks[k].tag = "late" THEN Chars("12.00") ELSE Chars("41.79")

(* C16: when the date line of a record holds the terminator and the fast   *)
(* path finds no amount, the legacy heuristic is run for that record from  *)
(* the line right after the date line: the record is emitted with its own  *)
(* date, its payee and memo split from the first payload and every         *)
(* non-blank line that follows the date line up to the amount line, and    *)
(* the amount and address of that amount line.                             *)
C16_LegacyAfterFailedFastPath ==
  ReportEnded =>
    \A k \in 1..Len(file.chunks) :
      FastPathFails(file, k) =>
        /\ Len(out) >= k
        /\ out[k].date = Chars("08/09/2025")
        /\ out[k].payee = SplitPayee(LinesToAmount(file, k))
        /\ out[k].memo = SplitMemo(LinesToAmount(file, k))
        /\ out[k].amount = Decimal(AmountAfter(file, k))
        /\ out[k].addr = <<Chars("PO Box 7")>>

\* the fast path has failed on the second record, whose line after the date
\* line has become the memo
C16_LateRecord ==
  /\ ReportEnded /\ Len(file.chunks) = 2
  /\ file.chunks[1].tag = "pipe" /\ file.chunks[2].tag = "late"
  /\ Len(out) = 2 /\ out[2].memo = Chars("Suite 5")

(* C17: parse_blocks runs only when the input has no header row: with a    *)
(* header row present main never reaches the block fallback, and the       *)
(* records it works with are those parse_text_report gathered.             *)
C17_BlocksOnlyWithoutHeader ==
  file.header => (pc # "blocks" /\ (Len(records) > 0 => records = out))

\* the 0-based index of the date line of part k: the header row and the
\* lines of the parts before it come first
PartStart(f, k) == 1 + Len(LinesOf(SubSeq(f.chunks, 1, k - 1)))

\* record k is what the fast path makes of the date line "Bob|memo|"
ByFastPath(rec) == rec.payee = Chars("Bob") /\ rec.memo = Chars("memo")

(* C18 (as the spec states it): with terminators on the date line and no   *)
(* amount after them, the fast path takes the first later line of the      *)
(* record that holds an amount as the amount line, so it succeeds whenever *)
(* some later line of the record carries an amount.                        *)
C18_ScansToAmount ==
  ReportEnded =>
    \A k \in 1..Len(file.chunks) :
      (file.chunks[k].tag \in {"peek", "late"} /\ InStep(file, k)) =>
        Len(out) >= k /\ ByFastPath(out[k])

(* C18 (amended): with no amount after the terminators of the date line    *)
(* the fast path looks at one line only, the first non-blank line that     *)
(* follows.  If that line holds an amount it is the amount line, and it is *)
(* removed with the blank lines before it: the record has the payee and    *)
(* memo of the tokens, the amount and the address of that line, and the    *)
(* cursor stands after it.  If that line holds no amount the fast path     *)
(* fails, whatever the lines after it hold: the record is then the one the *)
(* legacy heuristic makes, its payee the whole first payload.              *)
C18_PeeksOneLine ==
  \A k \in 1..Len(file.chunks) :
    (file.chunks[k].tag \in {"peek", "late"} /\ InStep(file, k)) =>
      /\ (pc = "report" /\ Len(out) = k /\ file.chunks[k].tag = "peek")
           => i = PartStart(file, k) + 3
      /\ ReportEnded =>
           /\ Len(out) >= k
           /\ out[k].amount = Decimal(Chars("12.00"))
           /\ out[k].addr = <<Chars("PO Box 7")>>
           /\ file.chunks[k].tag = "peek" => ByFastPath(out[k])
           /\ file.chunks[k].tag = "late" =>
                out[k].payee = Chars("Bob|memo|") /\ out[k].memo = Chars("Suite 5")

\* a record whose amount stands after a blank line, then one whose amount
\* stands two lines after the date line, are out
C18_PeekedThenLate ==
  /\ ReportEnded /\ Len(file.chunks) = 2 /\ Len(out) = 2
  /\ file.chunks[1].tag = "peek" /\ file.chunks[2].tag = "late"
  /\ ByFastPath(out[1]) /\ ~ByFastPath(out[2])

(* C19: in the pipe fast path the lines after the amount go to the address *)
(* only up to the first blank line, line that starts with a date (with or  *)
(* without text after it) or line with an amount, and that line is not in  *)
(* the address: the address of a record written with terminators is the    *)
(* address of its own lines, and none of its entries starts with a date.   *)
C19_AddressStopsAtNextRecord ==
  ReportEnded =>
    \A k \in 1..Len(file.chunks) :
      (file.chunks[k].tag \in {"pipe", "peek"} /\ InStep(file, k)) =>
        /\ Len(out) >= k
        /\ out[k].addr = file.chunks[k].check.addr
        /\ \A a \in 1..Len(out[k].addr) : ~date_at_start(out[k].addr[a]).ok

\* the 0-based index of the first line from k on that holds a footer
\* marker, the number of lines when there is none
RECURSIVE FirstFooterFrom(_, _)
FirstFooterFrom(lines, k) ==
  IF k >= Len(lines) \/ IsFooter(lines[k + 1]) THEN k
  ELSE FirstFooterFrom(lines, k + 1)

\* no text of the record holds a footer marker
FreeOfFooter(rec) ==
  /\ ~IsFooter(rec.payee) /\ ~IsFooter(rec.memo)
  /\ \A a \in 1..Len(rec.addr) : ~IsFooter(rec.addr[a])

(* C20: a line with a footer marker ends the whole extraction: the cursor  *)
(* of parse_text_report never goes past the first such line after the      *)
(* header, so that no record is begun after it, and the records returned   *)
(* are those completed before it: none of them holds the text of a footer  *)
(* line.                                                                   *)
C20_FooterEndsExtraction ==
  /\ pc # "report_start" => i <= FirstFooterFrom(raw_lines, 1)
  /\ \A k \in 1..Len(out) : FreeOfFooter(out[k])

\* parse_blocks has returned
BlocksEnded == pc # "blocks"

\* the first up to two lines, and the other lines, joined by a blank
FirstTwo(body) == JoinWith(Take(body, Min(2, Len(body))), <<" ">>)
AfterTwo(body) == JoinWith(Drop(body, Min(2, Len(body))), <<" ">>)

(* C21: in the block fallback the amount of a block is its last line that  *)
(* is exactly an amount; the lines before it are the body, the payee the   *)
(* first up to two of them and the memo the others; and no line without a  *)
(* terminator is in the address, which holds the pieces of the lines with  *)
(* terminators that follow the amount.                                     *)
C21_BlockFields ==
  BlocksEnded =>
    /\ Len(records) = Len(file.chunks)
    /\ \A k \in 1..Len(file.chunks) :
         /\ records[k].date = file.chunks[k].check.date
         /\ records[k].amount = Decimal(file.chunks[k].check.amount)
         /\ records[k].payee = FirstTwo(file.chunks[k].body)
         /\ records[k].memo = AfterTwo(file.chunks[k].body)
         /\ records[k].addr = file.chunks[k].check.addr
         /\ \A a \in 1..Len(records[k].addr) : records[k].addr[a] \notin PlainPosts

\* a block with two amount lines and lines with and without terminators
\* after them has been read, then a block of three body lines
C21_TwoAmounts ==
  /\ BlocksEnded /\ Len(file.chunks) = 2 /\ Len(records) = 2
  /\ Len(file.chunks[1].lines) = 9
  /\ Len(file.chunks[2].body) = 3 /\ Len(file.chunks[2].lines) = 5

\* the entry of RenderTexts for the text t
TextEntry(t) == CHOOSE e \in RenderTexts : e.text = t

\* the payee, the first address line and the memo of the record stand on
\* the face of the check and on both stubs as the texts p, a and m
ShownAs(page, p, a, m) ==
  /\ FieldAt(page, ROW_PAYEE, COL_PAYEE, p)
  /\ FieldAt(page, ROW_ADDR_START, COL_ADDR, a)
  /\ FieldAt(page, ROW_MEMO, COL_MEMO, m)
  /\ FieldAt(page, ROW_STUB1, COL_STUB_VAL, p)
  /\ FieldAt(page, ROW_STUB1 + 3, COL_STUB_VAL, m)
  /\ FieldAt(page, ROW_STUB2, COL_STUB_VAL, p)
  /\ FieldAt(page, ROW_STUB2 + 3, COL_STUB_VAL, m)

(* C22 (as the spec states it): the texts of a record undergo only the     *)
(* fixed punctuation replacements on their way to the page; letters with   *)
(* diacritics and other non-ASCII characters stand on the page unchanged.  *)
C22_OnlyPunctuationReplaced ==
  result.op = "render_check_page" =>
    ShownAs(result.page, TextEntry(call.rec.payee).subst,
            TextEntry(call.rec.addr[1]).subst, TextEntry(call.rec.memo).subst)

(* C22 (amended): the page holds ASCII characters only: after the fixed    *)
(* punctuation replacements a letter with a diacritic stands on the page   *)
(* as its base letter, a ligature as its letters, and a character with no  *)
(* ASCII decomposition is left out, the text after it moving left.         *)
C22_PageIsAscii ==
  result.op = "render_check_page" =>
    /\ result.ok
    /\ ShownAs(result.page, TextEntry(call.rec.payee).ascii,
               TextEntry(call.rec.addr[1]).ascii, TextEntry(call.rec.memo).ascii)
    /\ \A r \in 1..Len(result.page) : \A k \in 1..Len(result.page[r]) :
         result.page[r][k] \notin NonAscii

\* a page was rendered for a payee with diacritics and a memo with the
\* euro sign and a ligature
C22_FoldedPayee ==
  /\ result.op = "render_check_page"
  /\ TextEntry(call.rec.payee).ascii = Chars("Jose Pena")
  /\ TextEntry(call.rec.memo).ascii = Chars("5 fix")
  /\ TextEntry(call.rec.addr[1]).ascii = Chars("Grasso's")

\* an iteration of the outer loop is followed by another
LoopGoesOn == pc = "report" /\ pc' = "report"

\* the outer loop is left and parse_text_report returns
LoopLeft == pc = "report" /\ pc' # "report"

(* C23: parse_text_report terminates on every sequence of lines.  The      *)
(* cursor never moves backwards and never leaves the input; an iteration   *)
(* of the outer loop that is followed by another has moved it forward by   *)
(* at least one line (and appended one record), so there are at most as    *)
(* many iterations as lines; with the cursor at the end of the input the   *)
(* loop is left; and when the function returns, it returns the records     *)
(* gathered, the cursor at the end of the input or on a footer line.       *)
C23_ReportTerminates ==
  [][/\ i' >= i /\ i' <= Len(raw_lines)
     /\ LoopGoesOn => (i' > i /\ Len(out') = Len(out) + 1)
     /\ (pc = "report" /\ i >= Len(raw_lines)) => pc' # "report"
     /\ LoopLeft => /\ records' = out' /\ out' = out
                    /\ i' >= Len(raw_lines) \/ IsFooter(raw_lines[i' + 1])]_vars

\* one iteration has emitted a record and the next has returned at a
\* footer line, the cursor on it
C23_ReturnedAtFooter ==
  /\ ReportEnded /\ Len(out) = 1 /\ i > 1 /\ i < Len(raw_lines)
  /\ IsFooter(raw_lines[i + 1])

\* the text t is a line of the part, the blanks around it removed
LineOfPart(part, t) == \E l \in 1..Len(part.lines) : t = strip(part.lines[l])

(* C24: no line of the input gives text to two records: when a record read *)
(* by the fast path is followed by another record, no entry of its address *)
(* is a line of that record, whose date line, payee, memo and amount line  *)
(* are its own.                                                            *)
C24_NoLineInTwoRecords ==
  ReportEnded =>
    \A k \in 1..(Len(file.chunks) - 1) :
      (file.chunks[k].tag \in {"pipe", "peek"} /\ InStep(file, k + 1)) =>
        /\ Len(out) >= k + 1
        /\ \A a \in 1..Len(out[k].addr) :
             ~LineOfPart(file.chunks[k + 1], out[k].addr[a])

\* no MM/DD/YYYY stands anywhere in the text
NoDateIn(t) == \A q \in 1..Len(t) : ~DatePatternAt(t, q)

(* C25: in the legacy heuristic a date-led line always starts a record of  *)
(* its own: it is never taken into the lines before the amount of the      *)
(* record above it, so no payee and no memo holds a date-led line, and a   *)
(* record without an amount line does not take the next record in.         *)
C25_DateLineStartsRecord ==
  ReportEnded =>
    \A k \in 1..Len(out) : NoDateIn(out[k].payee) /\ NoDateIn(out[k].memo)

=============================================================================
